---- MODULE Spec2Model ----
(***************************************************************************)
(* State-machine model of the drupal-nodejs-typescript gateway: the        *)
(* ClientManager store (client-manager.ts), the backend service-key check  *)
(* (backend.ts), and the admin routes (routes.ts, server.ts).              *)
(***************************************************************************)
EXTENDS Integers, Sequences, FiniteSets, TLC

(***************************************************************************)
(* Bounds of the model.                                                    *)
(***************************************************************************)
MaxSockets == 2
MaxPending == 1
MaxSteps == 6
MaxSocketSteps == 8

SocketIds == 1..MaxSockets

(* Auth tokens the clients present, and what the backend knows of them. *)
AuthTokens == {"t0", "t1", "t2"}
Uids == {0, 1, 2}
ChannelNames == {"c1"}
TokenChannelNames == {"tc1"}
ContentTokens == {"k1"}

(* A uid that was never stamped on the socket object (socket.uid is undefined). *)
UidUndefined == 0 - 1
Hole == "<hole>"

(***************************************************************************)
(* Generic helpers for JavaScript objects used as maps.                    *)
(***************************************************************************)
EmptyMap == <<>>
MapSet(f, k, v) == [x \in (DOMAIN f) \cup {k} |-> IF x = k THEN v ELSE f[x]]
MapDel(f, k) == [x \in (DOMAIN f) \ {k} |-> f[x]]
Range(seq) == {seq[i] : i \in DOMAIN seq}

(***************************************************************************)
(* The backend (a black box): the identity it returns for an auth token.   *)
(***************************************************************************)
BackendUid(token) ==
  CASE token = "t1" -> 1
    [] token = "t2" -> 2
    [] OTHER -> 0

BackendChannels(token) == IF token = "t1" THEN <<"c1">> ELSE <<>>

BackendPresenceUids(token) ==
  CASE token = "t1" -> <<2>>
    [] token = "t2" -> <<1>>
    [] OTHER -> <<>>

(* The body of an accepting answer: the backend echoes authToken. *)
BackendIdentity(token) ==
  [authToken |-> token, uid |-> BackendUid(token),
   channels |-> BackendChannels(token),
   presenceUids |-> BackendPresenceUids(token)]

(* The answers of the backend to an authenticate request. *)
StatusCodes == {200, 301, 404, 500}

Answer(statusCode, nodejsValidAuthToken) ==
  [error |-> FALSE, statusCode |-> statusCode, parses |-> TRUE,
   bodyError |-> FALSE, nodejsValidAuthToken |-> nodejsValidAuthToken]

(* A transport error; a body that is not JSON; a body with an error field;
   and every status code with a well-formed body, valid or not. *)
Responses ==
  {[Answer(0, FALSE) EXCEPT !.error = TRUE, !.parses = FALSE],
   [Answer(200, FALSE) EXCEPT !.parses = FALSE],
   [Answer(200, TRUE) EXCEPT !.bodyError = TRUE]}
  \cup {Answer(sc, v) : sc \in StatusCodes, v \in BOOLEAN}

(* contentTokens of an authenticate message: a map tokenChannel -> token. *)
ContentTokenMaps == {{}} \cup {{<<tc, k>>} : tc \in TokenChannelNames, k \in ContentTokens}

PresenceLists == {<<1>>}

(* An authenticate message: bare, with an acknowledgement callback, or with
   content tokens and an acknowledgement callback. *)
AuthMessages ==
  {[authToken |-> t, contentTokens |-> v[1], ack |-> v[2]] :
     t \in AuthTokens, v \in {<<{}, FALSE>>, <<{}, TRUE>>} \cup
                              {<<c, TRUE>> : c \in ContentTokenMaps \ {{}}}}

(* A 'message' payload: null or undefined, or an object that may have a type
   and a channel property. *)
NullMessage == [nullish |-> TRUE, hasType |-> FALSE, hasChannel |-> FALSE, channel |-> ""]
Msg(hasType, hasChannel, channel) ==
  [nullish |-> FALSE, hasType |-> hasType, hasChannel |-> hasChannel, channel |-> channel]

ClientMessages ==
  {NullMessage} \cup {Msg(ty, h, c) : ty \in BOOLEAN, h \in BOOLEAN, c \in ChannelNames}

(***************************************************************************)
(* State.                                                                  *)
(***************************************************************************)
VARIABLES
  transport,                \* socket id -> "fresh" | "open" | "closed"
  stamp,                    \* socket id -> [authToken, uid] stamped on the socket object
  preAuthSockets,           \* ClientManager.preAuthSockets (its keys)
  sockets,                  \* ClientManager.sockets (its keys)
  authenticatedClients,     \* authToken -> identity
  onlineUsers,              \* uid -> presence list
  channels,                 \* channel -> [sessionIds, isClientWritable]
  tokenChannels,            \* token channel -> [tokens, sockets]
  presenceTimeoutIds,       \* uids whose presence timer is armed and not yet fired
  contentChannelTimeoutIds, \* <<tokenChannel, uid>> timers armed and not yet fired
  pending,                  \* authenticate requests in flight to the backend
  alive,                    \* the process has not died of an uncaught exception
  keyCheck,                 \* one call of Backend.checkServiceKey, in both versions of backend.ts
  settings,                 \* the configuration the server was started with
  budget,                   \* the number of handlers the run is followed for
  backendPresence,          \* uids the backend holds online: last told userOnline, not userOffline
  stepCount,                \* handlers run so far
  out                       \* what the last handler emitted, sent, posted and replied

vars == <<transport, stamp, preAuthSockets, sockets, authenticatedClients,
          onlineUsers, channels, tokenChannels, presenceTimeoutIds,
          contentChannelTimeoutIds, pending, alive, keyCheck, settings, budget,
          backendPresence, stepCount, out>>

NoStamp == [authToken |-> "", uid |-> UidUndefined]
NoTokenChannel == [tokens |-> EmptyMap, sockets |-> EmptyMap]
NewChannel == [sessionIds |-> {}, isClientWritable |-> FALSE]

NoResponse ==
  [error |-> FALSE, statusCode |-> 0, parses |-> FALSE,
   bodyError |-> FALSE, nodejsValidAuthToken |-> FALSE]

(* A reply of the HTTP server: the status code and the fields of the body. *)
NoStats == [authenticatedClients |-> 0, sockets |-> 0, onlineUsers |-> 0,
            tokenChannels |-> 0, contentTokens |-> {}]

NoReply ==
  [code |-> 200, status |-> "", error |-> "", result |-> "", sent |-> 0 - 1,
   uids |-> {}, authTokens |-> {}, stats |-> NoStats]

NoOut ==
  [op |-> "", sid |-> 0, authToken |-> "", uid |-> UidUndefined, channel |-> "",
   response |-> NoResponse, wantsAck |-> FALSE,
   gate |-> "", code |-> 0,
   contentTokens |-> {}, message |-> NullMessage, result |-> FALSE, repeat |-> FALSE,
   events |-> <<>>, sent |-> {}, posts |-> <<>>, ack |-> 0, threw |-> FALSE]

(* The machine as one record, so that handlers compose as functions. *)
Machine ==
  [transport |-> transport, stamp |-> stamp, preAuthSockets |-> preAuthSockets,
   sockets |-> sockets, authenticatedClients |-> authenticatedClients,
   onlineUsers |-> onlineUsers, channels |-> channels,
   tokenChannels |-> tokenChannels, presenceTimeoutIds |-> presenceTimeoutIds,
   contentChannelTimeoutIds |-> contentChannelTimeoutIds,
   debug |-> settings.debug,
   events |-> <<>>, sent |-> {}, posts |-> <<>>]

Emit(m, name, sid) == [m EXCEPT !.events = Append(@, [name |-> name, sid |-> sid])]

Post(m, messageType, uid) ==
  [m EXCEPT !.posts = Append(@, [messageType |-> messageType, uid |-> uid])]

(***************************************************************************)
(* ClientManager: fan-out primitives.                                      *)
(***************************************************************************)
Message(kind, uid, info) == [kind |-> kind, uid |-> uid, info |-> info]

(* publishMessageToClient: sends when the session is in sockets. *)
PublishMessageToClient(m, sessionId, message) ==
  IF sessionId \in m.sockets
    THEN [m EXCEPT !.sent = @ \cup {[to |-> sessionId, message |-> message]}]
    ELSE m

PublishMessageToClientResult(m, sessionId) == sessionId \in m.sockets

(* getNodejsSessionIdsFromUid: the comparison is the loose ==. *)
GetNodejsSessionIdsFromUid(m, uid) == {s \in m.sockets : m.stamp[s].uid = uid}

GetNodejsSessionIdsFromAuthToken(m, authToken) ==
  {s \in m.sockets : m.stamp[s].authToken = authToken}

(* sendPresenceChangeNotification: to every session of every listed observer. *)
SendPresenceChangeNotification(m, uid, presenceEvent) ==
  IF uid \in DOMAIN m.onlineUsers
    THEN LET targets == UNION {GetNodejsSessionIdsFromUid(m, o) : o \in Range(m.onlineUsers[uid])}
         IN [m EXCEPT !.sent = @ \cup
               {[to |-> s, message |-> Message("presenceNotification", uid, presenceEvent)] : s \in targets}]
    ELSE m

(***************************************************************************)
(* ClientManager.setupClientConnection                                     *)
(***************************************************************************)
SetupChannels(m, sessionId, authData) ==
  LET names == Range(authData.channels) \ {Hole}
      all == (DOMAIN m.channels) \cup names
  IN [m EXCEPT !.channels =
        [c \in all |->
           LET cur == IF c \in DOMAIN m.channels THEN m.channels[c] ELSE NewChannel
           IN IF c \in names
                THEN [cur EXCEPT !.sessionIds = @ \cup {sessionId}]
                ELSE cur]]

(* Variant: every set-up connection of a user is announced. *)
SetupPresenceAlwaysAnnounces(m, authData) ==
  IF authData.uid # 0
    THEN SendPresenceChangeNotification(
           Post([m EXCEPT !.onlineUsers = MapSet(@, authData.uid, authData.presenceUids)],
                "userOnline", authData.uid),
           authData.uid, "online")
    ELSE m

SetupPresence(m, authData) ==
  IF authData.uid # 0
    THEN LET sendPresenceChange == authData.uid \notin DOMAIN m.onlineUsers
             m1 == [m EXCEPT !.onlineUsers = MapSet(@, authData.uid, authData.presenceUids)]
         IN IF sendPresenceChange
              THEN SendPresenceChangeNotification(Post(m1, "userOnline", authData.uid),
                                                  authData.uid, "online")
              ELSE m1
    ELSE m

(* Variant: a redeemed token stays in tokens. *)
SetupContentTokensKeepsToken(m, sessionId, contentTokens) ==
  LET named == {p[1] : p \in contentTokens}
      all == (DOMAIN m.tokenChannels) \cup named
  IN [m EXCEPT !.tokenChannels =
        [tc \in all |->
           LET cur == IF tc \in DOMAIN m.tokenChannels THEN m.tokenChannels[tc] ELSE NoTokenChannel
               hit == {p \in contentTokens : p[1] = tc /\ p[2] \in DOMAIN cur.tokens}
           IN IF hit # {}
                THEN [cur EXCEPT !.sockets =
                        MapSet(@, sessionId, cur.tokens[(CHOOSE p \in hit : TRUE)[2]])]
                ELSE cur]]

SetupContentTokens(m, sessionId, contentTokens) ==
  LET named == {p[1] : p \in contentTokens}
      all == (DOMAIN m.tokenChannels) \cup named
  IN [m EXCEPT !.tokenChannels =
        [tc \in all |->
           LET cur == IF tc \in DOMAIN m.tokenChannels THEN m.tokenChannels[tc] ELSE NoTokenChannel
               hit == {p \in contentTokens : p[1] = tc /\ p[2] \in DOMAIN cur.tokens}
           IN IF hit # {}
                THEN LET clientToken == (CHOOSE p \in hit : TRUE)[2]
                     IN [tokens |-> MapDel(cur.tokens, clientToken),
                         sockets |-> MapSet(cur.sockets, sessionId, cur.tokens[clientToken])]
                ELSE cur]]

(* Variant: the socket is copied to sockets and stays in preAuthSockets. *)
SetupKeepsPreAuth(m, sessionId, authData, contentTokens) ==
  IF sessionId \notin m.preAuthSockets
    THEN m
    ELSE [m EXCEPT !.sockets = @ \cup {sessionId},
                   !.stamp[sessionId] = [authToken |-> authData.authToken, uid |-> authData.uid]]

(* Variant: the connection is set up although the socket left preAuthSockets. *)
SetupClientConnectionNoAbort(m, sessionId, authData, contentTokens) ==
  LET m1 == [m EXCEPT !.sockets = @ \cup {sessionId},
                      !.preAuthSockets = @ \ {sessionId},
                      !.stamp[sessionId] = [authToken |-> authData.authToken,
                                            uid |-> authData.uid]]
      m2 == SetupChannels(m1, sessionId, authData)
      m3 == SetupPresence(m2, authData)
      m4 == SetupContentTokens(m3, sessionId, contentTokens)
      m5 == Emit(m4, "client-authenticated", sessionId)
  IN PublishMessageToClient(m5, sessionId,
                            Message("clientAuthenticated", authData.uid, authData.authToken))

(* Variant: client-authenticated is emitted as soon as the socket is moved. *)
ClientAuthenticatedEmittedEarly(m, sessionId, authData, contentTokens) ==
  Emit([m EXCEPT !.sockets = @ \cup {sessionId},
                 !.preAuthSockets = @ \ {sessionId},
                 !.stamp[sessionId] = [authToken |-> authData.authToken,
                                       uid |-> authData.uid]],
       "client-authenticated", sessionId)

(* setupClientConnection up to and including process.emit('client-authenticated'):
   the manager as the subscribers of the event find it. *)
ClientAuthenticatedEmitted(m, sessionId, authData, contentTokens) ==
  LET m1 == [m EXCEPT !.sockets = @ \cup {sessionId},
                      !.preAuthSockets = @ \ {sessionId},
                      !.stamp[sessionId] = [authToken |-> authData.authToken,
                                            uid |-> authData.uid]]
      m2 == SetupChannels(m1, sessionId, authData)
      m3 == SetupPresence(m2, authData)
      m4 == SetupContentTokens(m3, sessionId, contentTokens)
  IN Emit(m4, "client-authenticated", sessionId)

SetupClientConnection(m, sessionId, authData, contentTokens) ==
  IF sessionId \notin m.preAuthSockets
    THEN m
    ELSE PublishMessageToClient(ClientAuthenticatedEmitted(m, sessionId, authData, contentTokens),
                                sessionId,
                                Message("clientAuthenticated", authData.uid, authData.authToken))

(***************************************************************************)
(* ClientManager.cleanupSocket                                             *)
(***************************************************************************)
(* Variant: a disconnect leaves the session id in the channels. *)
CleanupKeepsChannels(m, sid) == m

CleanupChannels(m, sid) ==
  [m EXCEPT !.channels = [c \in DOMAIN @ |-> [@[c] EXCEPT !.sessionIds = @ \ {sid}]]]

(* Variant: no grace period, the user is set offline at the disconnect. *)
CleanupPresenceNoGrace(m, uid) ==
  IF uid # 0
    THEN Post([SendPresenceChangeNotification(m, uid, "offline")
                 EXCEPT !.onlineUsers = MapDel(@, uid)], "userOffline", uid)
    ELSE m

CleanupPresence(m, uid) ==
  IF uid # 0
    THEN [m EXCEPT !.presenceTimeoutIds = @ \cup {uid}]
    ELSE m

(* Variant: only an entry whose payload asks for the notification is removed. *)
CleanupTokenChannelsNotifyOnly(m, sid, uid) ==
  LET inside == {tc \in DOMAIN m.tokenChannels : sid \in DOMAIN m.tokenChannels[tc].sockets}
      notify == {tc \in inside : m.tokenChannels[tc].sockets[sid].notifyOnDisconnect}
  IN [m EXCEPT !.contentChannelTimeoutIds = @ \cup {<<tc, uid>> : tc \in notify},
               !.tokenChannels = [tc \in DOMAIN @ |->
                  IF tc \in notify THEN [@[tc] EXCEPT !.sockets = MapDel(@, sid)] ELSE @[tc]]]

CleanupTokenChannels(m, sid, uid) ==
  LET inside == {tc \in DOMAIN m.tokenChannels : sid \in DOMAIN m.tokenChannels[tc].sockets}
      notify == {tc \in inside : m.tokenChannels[tc].sockets[sid].notifyOnDisconnect}
  IN [m EXCEPT !.contentChannelTimeoutIds = @ \cup {<<tc, uid>> : tc \in notify},
               !.tokenChannels = [tc \in DOMAIN @ |-> [@[tc] EXCEPT !.sockets = MapDel(@, sid)]]]

(* Variant: the disconnect of a socket also drops the identity it carried. *)
CleanupSocketForgetsIdentity(m, sid) ==
  LET m0 == Emit(m, "client-disconnect", sid)
  IN IF sid \in m0.preAuthSockets
       THEN [m0 EXCEPT !.preAuthSockets = @ \ {sid}]
       ELSE LET uid == m0.stamp[sid].uid
                m3 == CleanupTokenChannels(CleanupPresence(CleanupChannels(m0, sid), uid), sid, uid)
            IN [m3 EXCEPT !.sockets = @ \ {sid},
                          !.authenticatedClients = MapDel(@, m0.stamp[sid].authToken)]

CleanupSocket(m, sid) ==
  LET m0 == Emit(m, "client-disconnect", sid)
  IN IF sid \in m0.preAuthSockets
       THEN [m0 EXCEPT !.preAuthSockets = @ \ {sid}]
       ELSE LET uid == m0.stamp[sid].uid
                m1 == CleanupChannels(m0, sid)
                m2 == CleanupPresence(m1, uid)
                m3 == CleanupTokenChannels(m2, sid, uid)
            IN [m3 EXCEPT !.sockets = @ \ {sid}]

(* Variant: the rejected socket is left connected. *)
SocketStaysOpen(m, sid) == m

(* socket.disconnect(): the transport closes and delivers 'disconnect' at once;
   the handle of a closed socket is never read again, so its stamp is dropped. *)
SocketDisconnect(m, sid) ==
  IF m.transport[sid] = "open"
    THEN [CleanupSocket([m EXCEPT !.transport[sid] = "closed"], sid) EXCEPT !.stamp[sid] = NoStamp]
    ELSE m

(***************************************************************************)
(* Presence and token-channel timers.                                      *)
(***************************************************************************)
SetUserOffline(m, uid) ==
  LET m1 == SendPresenceChangeNotification(m, uid, "offline")
      m2 == [m1 EXCEPT !.onlineUsers = MapDel(@, uid)]
  IN Post(m2, "userOffline", uid)

(* Variant: the timer sets the user offline without looking for sockets. *)
CheckOnlineStatusAlwaysOffline(m, uid) == SetUserOffline(m, uid)

CheckOnlineStatusRun(m, uid) ==
  IF GetNodejsSessionIdsFromUid(m, uid) = {}
    THEN SetUserOffline(m, uid)
    ELSE m

CheckTokenChannelStatusRun(m, tokenChannel, uid) ==
  IF tokenChannel \notin DOMAIN m.tokenChannels
    THEN m
    ELSE IF \E s \in GetNodejsSessionIdsFromUid(m, uid) : s \in DOMAIN m.tokenChannels[tokenChannel].sockets
           THEN m
           ELSE [m EXCEPT !.sent = @ \cup
                   {[to |-> s, message |-> Message("contentChannelNotification", uid, tokenChannel)] :
                      s \in (DOMAIN m.tokenChannels[tokenChannel].sockets) \cap m.sockets}]

(***************************************************************************)
(* ClientManager.authenticateClientCallback: TRUE when the answer accepts. *)
(***************************************************************************)
AuthenticateClientCallbackResult(response) ==
  IF response.error THEN FALSE
  ELSE IF response.statusCode = 404 THEN FALSE
  ELSE IF response.statusCode = 301 THEN FALSE
  ELSE IF ~response.parses THEN FALSE
  ELSE IF response.bodyError THEN FALSE
  ELSE IF ~response.nodejsValidAuthToken THEN FALSE
  ELSE TRUE

(* Variant: the identity is not cached after the connection is set up. *)
AuthenticateClientCallbackForgets(m, request, response) ==
  IF AuthenticateClientCallbackResult(response)
    THEN SetupClientConnection(m, request.sid, BackendIdentity(request.authToken),
                               request.contentTokens)
    ELSE m

AuthenticateClientCallback(m, request, response) ==
  IF AuthenticateClientCallbackResult(response)
    THEN LET authData == BackendIdentity(request.authToken)
             m1 == SetupClientConnection(m, request.sid, authData, request.contentTokens)
         IN [m1 EXCEPT !.authenticatedClients = MapSet(@, authData.authToken,
                           [uid |-> authData.uid, channels |-> authData.channels,
                            presenceUids |-> authData.presenceUids])]
    ELSE m

(***************************************************************************)
(* Values that reach the manager as a uid: a number (the backend's JSON,   *)
(* an extension's call) or a string taken from a request path.             *)
(***************************************************************************)
NotANumber == 0 - 2
Num(n) == [type |-> "number", n |-> n]
Str(n) == [type |-> "string", n |-> n]
Text == [type |-> "string", n |-> NotANumber]

(* number === value, and number == value *)
StrictEquals(n, value) == value.type = "number" /\ value.n = n
LooseEquals(n, value) == value.n = n

(***************************************************************************)
(* ClientManager: admin operations.                                        *)
(***************************************************************************)
RECURSIVE CleanupSockets(_, _)
CleanupSockets(m, sids) ==
  IF sids = {}
    THEN m
    ELSE LET s == CHOOSE x \in sids : \A y \in sids : x <= y
         IN CleanupSockets(CleanupSocket(m, s), sids \ {s})

(* Variant: the identities go, the sockets stay. *)
KickUserKeepsSockets(m, uid) ==
  LET kept == {t \in DOMAIN m.authenticatedClients : ~StrictEquals(m.authenticatedClients[t].uid, uid)}
  IN [m EXCEPT !.authenticatedClients = [t \in kept |-> m.authenticatedClients[t]]]

KickUser(m, uid) ==
  LET kept == {t \in DOMAIN m.authenticatedClients : ~StrictEquals(m.authenticatedClients[t].uid, uid)}
      gone == {s \in m.sockets : StrictEquals(m.stamp[s].uid, uid)}
  IN [m EXCEPT !.authenticatedClients = [t \in kept |-> m.authenticatedClients[t]],
               !.sockets = @ \ gone,
               !.channels = [c \in DOMAIN @ |-> [@[c] EXCEPT !.sessionIds = @ \ gone]]]

LogoutUser(m, authToken) ==
  LET m1 == [m EXCEPT !.authenticatedClients = MapDel(@, authToken)]
  IN CleanupSockets(m1, GetNodejsSessionIdsFromAuthToken(m1, authToken))

EnsureChannel(m, channel) ==
  IF channel \in DOMAIN m.channels
    THEN m
    ELSE [m EXCEPT !.channels = MapSet(@, channel, NewChannel)]

(* Variant: the channel is pushed without the indexOf test. *)
PushChannelAlways(identity, channel) == [identity EXCEPT !.channels = Append(@, channel)]

PushChannel(identity, channel) ==
  IF channel \in Range(identity.channels)
    THEN identity
    ELSE [identity EXCEPT !.channels = Append(@, channel)]

(* delete channels[index]: leaves a hole at the first index of the channel *)
DeleteChannel(identity, channel) ==
  IF channel \in Range(identity.channels)
    THEN LET index == CHOOSE i \in DOMAIN identity.channels :
                        /\ identity.channels[i] = channel
                        /\ \A j \in DOMAIN identity.channels : identity.channels[j] = channel => i <= j
         IN [identity EXCEPT !.channels[index] = Hole]
    ELSE identity

AddUserToChannel(m, channel, uid) ==
  LET m1 == EnsureChannel(m, channel)
      sessionIds == GetNodejsSessionIdsFromUid(m1, uid.n)
  IN IF sessionIds # {}
       THEN [result |-> TRUE,
             m |-> [m1 EXCEPT !.channels[channel].sessionIds = @ \cup sessionIds,
                              !.authenticatedClients =
                                 [t \in DOMAIN @ |->
                                    IF StrictEquals(@[t].uid, uid) THEN PushChannel(@[t], channel) ELSE @[t]]]]
       ELSE [result |-> FALSE, m |-> m1]

(* this.authenticateClient.hasOwnProperty(authToken): the own properties of a
   method are length, name and prototype, never an auth token. *)
AuthenticateClientHasOwnProperty(authToken) == authToken \in {"length", "name", "prototype"}

RemoveUserFromChannel(m, channel, uid) ==
  IF channel \in DOMAIN m.channels
    THEN [result |-> TRUE,
          m |-> [m EXCEPT !.channels[channel].sessionIds = @ \ GetNodejsSessionIdsFromUid(m, uid.n),
                          !.authenticatedClients =
                             [t \in DOMAIN @ |->
                                IF AuthenticateClientHasOwnProperty(t) /\ StrictEquals(@[t].uid, uid)
                                  THEN DeleteChannel(@[t], channel) ELSE @[t]]]]
    ELSE [result |-> FALSE, m |-> m]

AddAuthTokenToChannel(m, channel, authToken) ==
  IF authToken \notin DOMAIN m.authenticatedClients
    THEN [result |-> FALSE, m |-> m]
    ELSE LET m1 == EnsureChannel(m, channel)
             sessionIds == GetNodejsSessionIdsFromAuthToken(m1, authToken)
         IN IF sessionIds # {}
              THEN [result |-> TRUE,
                    m |-> [m1 EXCEPT !.channels[channel].sessionIds = @ \cup sessionIds,
                                     !.authenticatedClients[authToken] = PushChannel(@, channel)]]
              ELSE [result |-> FALSE, m |-> m1]

RemoveAuthTokenFromChannel(m, channel, authToken) ==
  IF authToken \notin DOMAIN m.authenticatedClients
    THEN [result |-> FALSE, m |-> m]
    ELSE IF channel \in DOMAIN m.channels
           THEN [result |-> TRUE,
                 m |-> [m EXCEPT !.channels[channel].sessionIds =
                                    @ \ GetNodejsSessionIdsFromAuthToken(m, authToken),
                                 !.authenticatedClients[authToken] = DeleteChannel(@, channel)]]
           ELSE [result |-> FALSE, m |-> m]

(* The names every object inherits from Object.prototype that are channel
   names by the routes' pattern; one stands for them all. *)
PrototypeNames == {"toString"}

(* this.channels[channel] as a condition: an own key holds an object, and an
   inherited name holds a function; both are truthy. *)
ChannelsTruthy(m, channel) == channel \in DOMAIN m.channels \/ channel \in PrototypeNames

AddChannel(m, channel) ==
  IF ChannelsTruthy(m, channel)
    THEN [result |-> FALSE, m |-> m]
    ELSE [result |-> TRUE, m |-> [m EXCEPT !.channels = MapSet(@, channel, NewChannel)]]

CheckChannel(m, channel) == ChannelsTruthy(m, channel)

RemoveChannel(m, channel) ==
  IF ChannelsTruthy(m, channel)
    THEN [result |-> TRUE, m |-> [m EXCEPT !.channels = MapDel(@, channel)]]
    ELSE [result |-> FALSE, m |-> m]

(* uidList entries are numbers or digit strings here; a non-digit entry fails. *)
SetUserPresenceList(m, uid, uidList) ==
  IF \E i \in DOMAIN uidList : uidList[i] < 0
    THEN [result |-> FALSE, m |-> m]
    ELSE [result |-> TRUE, m |-> [m EXCEPT !.onlineUsers = MapSet(@, uid, uidList)]]

GetStats(m) ==
  [authenticatedClients |-> Cardinality(DOMAIN m.authenticatedClients),
   sockets |-> Cardinality(m.sockets),
   onlineUsers |-> Cardinality(DOMAIN m.onlineUsers),
   tokenChannels |-> Cardinality(DOMAIN m.tokenChannels),
   contentTokens |-> DOMAIN m.tokenChannels]

(* Throws when a listed socket id is not in sockets. *)
GetContentTokenChannelUsers(m, channel) ==
  IF channel \notin DOMAIN m.tokenChannels
    THEN [threw |-> FALSE, uids |-> {}, authTokens |-> {}]
    ELSE LET listed == DOMAIN m.tokenChannels[channel].sockets
         IN IF listed \subseteq m.sockets
              THEN [threw |-> FALSE,
                    uids |-> {m.stamp[s].uid : s \in {x \in listed : m.stamp[x].uid # 0}},
                    authTokens |-> {m.stamp[s].authToken : s \in {x \in listed : m.stamp[x].uid = 0}}]
              ELSE [threw |-> TRUE, uids |-> {}, authTokens |-> {}]

(* this.tokenChannels[channel] || {...}: for a name inherited from
   Object.prototype the left operand is the inherited function, which has no
   tokens property, and the assignment to tokens[token] throws. *)
SetContentTokenThrows(m, channel) == channel \in PrototypeNames

SetContentToken(m, channel, token, value) ==
  LET cur == IF channel \in DOMAIN m.tokenChannels THEN m.tokenChannels[channel] ELSE NoTokenChannel
  IN [m EXCEPT !.tokenChannels = MapSet(@, channel, [cur EXCEPT !.tokens = MapSet(@, token, value)])]

(* Variant: the message goes to every socket id the token channel lists. *)
PublishMessageToContentChannelAnyListed(m, channel, message) ==
  IF channel \notin DOMAIN m.tokenChannels
    THEN [result |-> FALSE, m |-> m]
    ELSE [result |-> TRUE,
          m |-> [m EXCEPT !.sent = @ \cup
                   {[to |-> s, message |-> message] : s \in DOMAIN m.tokenChannels[channel].sockets}]]

PublishMessageToContentChannel(m, channel, message) ==
  IF channel \notin DOMAIN m.tokenChannels
    THEN [result |-> FALSE, m |-> m]
    ELSE [result |-> TRUE,
          m |-> [m EXCEPT !.sent = @ \cup
                   {[to |-> s, message |-> message] :
                      s \in (DOMAIN m.tokenChannels[channel].sockets) \cap m.sockets}]]

(* publishMessageToChannel: the count of clients the message was sent to *)
PublishMessageToChannel(m, hasChannel, channel, message) ==
  IF ~hasChannel \/ channel \notin DOMAIN m.channels
    THEN [count |-> 0, m |-> m]
    ELSE LET reached == m.channels[channel].sessionIds \cap m.sockets
         IN [count |-> Cardinality(reached),
             m |-> [m EXCEPT !.sent = @ \cup {[to |-> s, message |-> message] : s \in reached}]]

BroadcastMessage(m, message) ==
  [m EXCEPT !.sent = @ \cup {[to |-> s, message |-> message] : s \in m.sockets}]

(* Variant: the count includes the sockets that have not authenticated. *)
GetSocketCountWithPreAuth(m) == Cardinality(m.sockets \cup m.preAuthSockets)

GetSocketCount(m) == Cardinality(m.sockets)

(***************************************************************************)
(* ClientManager.joinTokenChannel and processMessage                       *)
(***************************************************************************)
JoinTokenChannel(m, socketId, hasChannel, channel, hasToken, token) ==
  IF socketId \notin m.sockets
    THEN m
    ELSE IF ~hasChannel \/ ~hasToken
           THEN m
           ELSE LET cur == IF channel \in DOMAIN m.tokenChannels
                             THEN m.tokenChannels[channel] ELSE NoTokenChannel
                IN IF token \in DOMAIN cur.tokens
                     THEN LET joined == [tokens |-> MapDel(cur.tokens, token),
                                         sockets |-> MapSet(cur.sockets, socketId, cur.tokens[token])]
                              m1 == [m EXCEPT !.tokenChannels = MapSet(@, channel, joined)]
                          IN PublishMessageToContentChannel(m1, channel,
                               Message("clientJoinedTokenChannel", UidUndefined, channel)).m
                     ELSE [m EXCEPT !.tokenChannels = MapSet(@, channel, cur)]

ChannelIsClientWritable(m, channel) ==
  IF channel \in DOMAIN m.channels
    THEN m.channels[channel].isClientWritable
    ELSE FALSE

ClientIsInChannel(m, socketId, channel) ==
  IF channel \notin DOMAIN m.channels
    THEN FALSE
    ELSE socketId \in m.channels[channel].sessionIds

(* Variant: a writable channel takes messages from any authenticated socket. *)
ProcessMessageAnyMember(m, clientsCanWriteToClients, socketId, message) ==
  IF socketId \notin m.sockets THEN [threw |-> FALSE, m |-> m]
  ELSE IF message.nullish THEN [threw |-> TRUE, m |-> m]
  ELSE IF ~message.hasType THEN [threw |-> FALSE, m |-> m]
  ELSE IF message.hasChannel
    THEN IF ChannelIsClientWritable(m, message.channel)
           THEN [threw |-> FALSE, m |-> Emit(m, "client-to-channel-message", socketId)]
           ELSE [threw |-> FALSE, m |-> m]
  ELSE IF clientsCanWriteToClients
    THEN [threw |-> FALSE, m |-> Emit(m, "client-to-client-message", socketId)]
    ELSE [threw |-> FALSE, m |-> m]

(* processMessage: message.hasOwnProperty throws on null and undefined, once
   the sender is known to be in sockets. *)
ProcessMessage(m, clientsCanWriteToClients, socketId, message) ==
  IF socketId \notin m.sockets THEN [threw |-> FALSE, m |-> m]
  ELSE IF message.nullish THEN [threw |-> TRUE, m |-> m]
  ELSE IF ~message.hasType THEN [threw |-> FALSE, m |-> m]
  ELSE IF message.hasChannel
    THEN IF ChannelIsClientWritable(m, message.channel) /\ ClientIsInChannel(m, socketId, message.channel)
           THEN [threw |-> FALSE, m |-> Emit(m, "client-to-channel-message", socketId)]
           ELSE [threw |-> FALSE, m |-> m]
  ELSE IF clientsCanWriteToClients
    THEN [threw |-> FALSE, m |-> Emit(m, "client-to-client-message", socketId)]
    ELSE [threw |-> FALSE, m |-> m]

(***************************************************************************)
(* Backend.checkServiceKey: strings are sequences of UTF-16 code units.    *)
(***************************************************************************)
CodeUnitBits == 16
NaN == 0 - 3

(* ToInt32 of a char code: NaN becomes 0 *)
ToInt32(x) == IF x = NaN THEN 0 ELSE x

RECURSIVE BitXor(_, _, _)
BitXor(a, b, bits) ==
  IF bits = 0 THEN 0
  ELSE (IF (a % 2) # (b % 2) THEN 1 ELSE 0) + 2 * BitXor(a \div 2, b \div 2, bits - 1)

RECURSIVE BitOr(_, _, _)
BitOr(a, b, bits) ==
  IF bits = 0 THEN 0
  ELSE (IF (a % 2) = 1 \/ (b % 2) = 1 THEN 1 ELSE 0) + 2 * BitOr(a \div 2, b \div 2, bits - 1)

(* charCodeAt(i), i counted from 0: NaN past the end *)
CharCodeAt(str, i) == IF i < Len(str) THEN str[i + 1] ELSE NaN

(* Variant: the loop stops at the first differing position. *)
RECURSIVE MismatchLoopEarlyExit(_, _, _, _, _)
MismatchLoopEarlyExit(serviceKey, configured, i, mismatch, steps) ==
  IF i < Len(serviceKey) /\ mismatch = 0
    THEN MismatchLoopEarlyExit(serviceKey, configured, i + 1,
                               BitXor(ToInt32(CharCodeAt(serviceKey, i)),
                                      ToInt32(CharCodeAt(configured, i)), CodeUnitBits),
                               steps + 1)
    ELSE [mismatch |-> mismatch, steps |-> steps]

(* The loop of checkServiceKey from index i: the mismatch accumulator and the
   number of comparison steps made. *)
RECURSIVE MismatchLoop(_, _, _, _, _)
MismatchLoop(serviceKey, configured, i, mismatch, steps) ==
  IF i < Len(serviceKey)
    THEN MismatchLoop(serviceKey, configured, i + 1,
                      BitOr(mismatch,
                            BitXor(ToInt32(CharCodeAt(serviceKey, i)),
                                   ToInt32(CharCodeAt(configured, i)), CodeUnitBits),
                            CodeUnitBits),
                      steps + 1)
    ELSE [mismatch |-> mismatch, steps |-> steps]

(* A request header: absent, or a string.  The parameter defaults to ''. *)
HeaderValue(header) == IF header.present THEN header.value ELSE <<>>

(* Variant: the length comparison is dropped. *)
CheckServiceKeyRunNoLength(configured, header) ==
  LET serviceKey == HeaderValue(header)
  IN IF configured # <<>>
       THEN LET loop == MismatchLoop(serviceKey, configured, 0, 0, 0)
            IN [result |-> loop.mismatch = 0, steps |-> loop.steps]
       ELSE [result |-> TRUE, steps |-> 0]

CheckServiceKeyRun(configured, header) ==
  LET serviceKey == HeaderValue(header)
  IN IF configured # <<>>
       THEN LET loop == MismatchLoop(serviceKey, configured, 0, 0, 0)
            IN [result |-> ~(Len(serviceKey) # Len(configured) \/ loop.mismatch # 0),
                steps |-> loop.steps]
       ELSE [result |-> TRUE, steps |-> 0]

CheckServiceKey(configured, header) == CheckServiceKeyRun(configured, header).result

(* The earlier Backend.checkServiceKey: serviceKey != settings.serviceKey *)
CheckServiceKeyPlain(configured, header) ==
  IF configured # <<>> /\ (~header.present \/ header.value # configured)
    THEN FALSE
    ELSE TRUE

(* settings.serviceKey of the running server *)
ServiceKey == <<97, 98>>

Header(value) == [present |-> TRUE, value |-> value]
NoHeader == [present |-> FALSE, value |-> <<>>]

(* The NodejsServiceKey headers the requests carry *)
WrongKey == <<97, 99>>
PresentedHeaders == {Header(ServiceKey), Header(WrongKey), NoHeader}

(***************************************************************************)
(* Routes: the admin verbs.                                                *)
(***************************************************************************)
Success == [NoReply EXCEPT !.status = "success"]
Failed(error) == [NoReply EXCEPT !.status = "failed", !.error = error]
Error(error) == [NoReply EXCEPT !.error = error]
ServerError == [NoReply EXCEPT !.code = 500]
NotFound == [NoReply EXCEPT !.code = 404]

Served(m, reply) == [m |-> m, reply |-> reply]

ValidUid(uid) == uid.n >= 0                    \* /^\d+$/.test(uid)
ValidChannel(channel) ==                       \* /^[a-z0-9_]+$/i
  channel \in ChannelNames \cup TokenChannelNames \cup PrototypeNames

RoutePublishMessage(m, request) ==
  IF ~request.hasChannel /\ ~request.broadcast
    THEN Served(m, Error("Required parameters are missing."))
    ELSE IF request.broadcast
           THEN LET m1 == BroadcastMessage(m, Message("published", UidUndefined, "broadcast"))
                IN Served(Emit(m1, "message-published", 0), [Success EXCEPT !.sent = GetSocketCount(m1)])
           ELSE LET r == PublishMessageToChannel(m, request.hasChannel, request.channel,
                                                 Message("published", UidUndefined, request.channel))
                IN Served(Emit(r.m, "message-published", 0), [Success EXCEPT !.sent = r.count])

RouteKickUser(m, request) == Served(KickUser(m, request.uid), Success)

(* Routes.logoutUser calls clientManager.kickUser(authToken) *)
RouteLogoutUser(m, request) == Served(KickUser(m, Text), Success)

RouteAddUserToChannel(m, request) ==
  IF ~ValidUid(request.uid) THEN Served(m, Failed("Invalid uid."))
  ELSE IF ~ValidChannel(request.channel) THEN Served(m, Failed("Invalid channel name."))
  ELSE LET r == AddUserToChannel(m, request.channel, request.uid)
       IN Served(r.m, IF r.result THEN Success ELSE Failed("No active sessions for uid."))

RouteRemoveUserFromChannel(m, request) ==
  IF ~ValidUid(request.uid) THEN Served(m, Failed("Invalid uid."))
  ELSE IF ~ValidChannel(request.channel) THEN Served(m, Failed("Invalid channel name."))
  ELSE LET r == RemoveUserFromChannel(m, request.channel, request.uid)
       IN Served(r.m, IF r.result THEN Success ELSE Failed("Non-existent channel name."))

RouteAddChannel(m, request) ==
  IF ~ValidChannel(request.channel) THEN Served(m, Failed("Invalid channel name."))
  ELSE LET r == AddChannel(m, request.channel)
       IN Served(r.m, IF r.result THEN Success ELSE Failed("Channel name already exists."))

RouteHealthCheck(m, request) == Served(m, [Success EXCEPT !.stats = GetStats(m)])

RouteCheckChannel(m, request) ==
  IF ~ValidChannel(request.channel) THEN Served(m, Failed("Invalid channel name."))
  ELSE Served(m, [Success EXCEPT !.result = IF CheckChannel(m, request.channel) THEN "true" ELSE "false"])

RouteRemoveChannel(m, request) ==
  IF ~ValidChannel(request.channel) THEN Served(m, Failed("Invalid channel name."))
  ELSE LET r == RemoveChannel(m, request.channel)
       IN Served(r.m, IF r.result THEN Success ELSE Failed("Non-existent channel name."))

(* The route declares :uidList and the handler reads request.params.uidlist,
   which is undefined: .split throws and Express answers 500. *)
RouteSetUserPresenceList(m, request) == Served(m, ServerError)

(* A body whose debug field is false is answered as if the field were missing,
   before settings.debug is assigned. *)
RouteToggleDebug(m, request) ==
  IF ~request.debug
    THEN Served(m, Error("Required parameters are missing."))
    ELSE Served([m EXCEPT !.debug = request.debug], Success)

RouteGetContentTokenUsers(m, request) ==
  IF ~request.hasChannel
    THEN Served(m, Error("Required parameters are missing."))
    ELSE LET users == GetContentTokenChannelUsers(m, request.channel)
         IN IF users.threw
              THEN Served(m, ServerError)
              ELSE Served(m, [NoReply EXCEPT !.uids = users.uids, !.authTokens = users.authTokens])

(* A throw in setContentToken reaches Express, which answers 500.  The
   inherited function that the failed call stored under the channel's name has
   no counterpart in tokenChannels here; no request of KeyedRequests names
   such a channel. *)
RouteSetContentToken(m, request) ==
  IF ~request.hasChannel \/ ~request.hasToken
    THEN Served(m, Error("Required parameters are missing."))
    ELSE IF SetContentTokenThrows(m, request.channel)
    THEN Served(m, ServerError)
    ELSE Served(SetContentToken(m, request.channel, request.token,
                                [notifyOnDisconnect |-> request.notifyOnDisconnect]),
                Success)

RoutePublishMessageToContentChannel(m, request) ==
  IF ~request.hasChannel
    THEN Served(m, Error("Invalid message"))
    ELSE LET r == PublishMessageToContentChannel(m, request.channel,
                                                 Message("published", UidUndefined, request.channel))
         IN Served(r.m, IF r.result THEN Success ELSE Error("Invalid message"))

RouteAddAuthTokenToChannel(m, request) ==
  IF ~ValidChannel(request.channel) THEN Served(m, Failed("Invalid channel name."))
  ELSE LET r == AddAuthTokenToChannel(m, request.channel, request.authToken)
       IN Served(r.m, IF r.result THEN Success ELSE Failed("Invalid parameters."))

RouteRemoveAuthTokenFromChannel(m, request) ==
  IF ~ValidChannel(request.channel) THEN Served(m, Failed("Invalid channel name."))
  ELSE LET r == RemoveAuthTokenFromChannel(m, request.channel, request.authToken)
       IN Served(r.m, IF r.result THEN Success ELSE Failed("Invalid parameters."))

(* DrupalServer.start: the routes in the order they are registered. *)
RouteTable ==
  {<<"POST", "publish">>, <<"POST", "user/kick">>, <<"POST", "user/logout">>,
   <<"POST", "user/channel/add">>, <<"POST", "user/channel/remove">>,
   <<"POST", "channel/add">>, <<"GET", "health/check">>, <<"GET", "channel/check">>,
   <<"POST", "channel/remove">>, <<"GET", "user/presence-list">>,
   <<"POST", "debug/toggle">>,
   <<"POST", "content/token/users">>, <<"POST", "content/token">>,
   <<"POST", "content/token/message">>, <<"POST", "authtoken/channel/add">>,
   <<"POST", "authtoken/channel/remove">>}

RouteHandler(m, request) ==
  CASE request.path = "publish" -> RoutePublishMessage(m, request)
    [] request.path = "user/kick" -> RouteKickUser(m, request)
    [] request.path = "user/logout" -> RouteLogoutUser(m, request)
    [] request.path = "user/channel/add" -> RouteAddUserToChannel(m, request)
    [] request.path = "user/channel/remove" -> RouteRemoveUserFromChannel(m, request)
    [] request.path = "channel/add" -> RouteAddChannel(m, request)
    [] request.path = "health/check" -> RouteHealthCheck(m, request)
    [] request.path = "channel/check" -> RouteCheckChannel(m, request)
    [] request.path = "channel/remove" -> RouteRemoveChannel(m, request)
    [] request.path = "user/presence-list" -> RouteSetUserPresenceList(m, request)
    [] request.path = "debug/toggle" -> RouteToggleDebug(m, request)
    [] request.path = "content/token/users" -> RouteGetContentTokenUsers(m, request)
    [] request.path = "content/token" -> RouteSetContentToken(m, request)
    [] request.path = "content/token/message" -> RoutePublishMessageToContentChannel(m, request)
    [] request.path = "authtoken/channel/add" -> RouteAddAuthTokenToChannel(m, request)
    [] OTHER -> RouteRemoveAuthTokenFromChannel(m, request)

UnknownPath == "unknown"    \* under baseAuthPath, no route
OutsidePath == "/outside"   \* not under baseAuthPath
InvalidChannelName == "c!"

(* Routes.checkServiceKey: the gate before every route under baseAuthPath *)
(* Variant: the gate lets every request through. *)
AnyKeyPasses(request) == TRUE

AcceptedHeaders == {header \in PresentedHeaders : CheckServiceKey(ServiceKey, header)}
RoutesCheckServiceKey(request) == request.header \in AcceptedHeaders

(* What the gate did with a request: it is not run outside baseAuthPath *)
Gate(request) ==
  IF request.path = OutsidePath THEN ""
  ELSE IF RoutesCheckServiceKey(request) THEN "passed" ELSE "refused"

(* One request through the Express stack: [m, reply, handler]. *)
Serve(m, request) ==
  IF request.path # OutsidePath /\ ~RoutesCheckServiceKey(request)
    THEN [m |-> m, reply |-> Error("Invalid service key."), handler |-> "checkServiceKey"]
    ELSE IF <<request.method, request.path>> \in RouteTable
           THEN LET r == RouteHandler(m, request)
                IN [m |-> r.m, reply |-> r.reply, handler |-> request.path]
           ELSE [m |-> m, reply |-> NotFound,
                 handler |-> IF request.method = "GET" THEN "send404" ELSE ""]

(***************************************************************************)
(* The requests the model sends.                                           *)
(***************************************************************************)
BaseRequest ==
  [method |-> "GET", path |-> "", header |-> Header(ServiceKey), uid |-> Text,
   channel |-> "c1", hasChannel |-> TRUE, authToken |-> "t1",
   token |-> "k1", hasToken |-> TRUE, notifyOnDisconnect |-> FALSE, broadcast |-> FALSE,
   debug |-> TRUE, uidList |-> <<Str(1)>>]

Req(method, path) == [BaseRequest EXCEPT !.method = method, !.path = path]

PathUids == {Str(1), Text}
OtherTokenChannel == "tc2"   \* a token channel no client names
PathChannels == ChannelNames \cup {InvalidChannelName}

KeyedRequests ==
  {[Req("POST", "publish") EXCEPT !.hasChannel = h, !.broadcast = b] : h \in BOOLEAN, b \in BOOLEAN}
  \cup {[Req("POST", "user/kick") EXCEPT !.uid = Str(1)]}
  \cup {Req("POST", "user/logout")}
  \cup {[Req("POST", p) EXCEPT !.uid = u, !.channel = c] :
          p \in {"user/channel/add", "user/channel/remove"}, u \in PathUids, c \in PathChannels}
  \cup {[Req("POST", p) EXCEPT !.channel = c] :
          p \in {"authtoken/channel/add", "authtoken/channel/remove"}, c \in PathChannels}
  \cup {[Req("POST", p) EXCEPT !.channel = c] :
          p \in {"channel/add", "channel/remove"}, c \in PathChannels \cup PrototypeNames}
  \cup {Req("GET", "health/check")}
  \cup {[Req("GET", "channel/check") EXCEPT !.channel = c] : c \in PathChannels \cup PrototypeNames}
  \cup {Req("GET", "user/presence-list")}
  \cup {[Req("POST", "debug/toggle") EXCEPT !.debug = d] : d \in BOOLEAN}
  \cup {[Req("POST", p) EXCEPT !.channel = "tc1", !.hasChannel = h] :
          p \in {"content/token/users", "content/token/message"}, h \in BOOLEAN}
  \cup {[Req("POST", "content/token") EXCEPT !.channel = "tc1", !.hasToken = h, !.notifyOnDisconnect = n] :
          h \in BOOLEAN, n \in BOOLEAN}
  \cup {[Req("POST", "content/token") EXCEPT !.channel = OtherTokenChannel]}
  \cup {Req(method, p) : method \in {"GET", "POST"}, p \in {UnknownPath, OutsidePath}}

(* The same method and path with a header that is not the configured key. *)
UnkeyedRequests ==
  {[Req(r[1], r[2]) EXCEPT !.header = h] :
     r \in RouteTable \cup {<<"GET", UnknownPath>>, <<"GET", OutsidePath>>},
     h \in PresentedHeaders \ {Header(ServiceKey)}}

Requests == KeyedRequests \cup UnkeyedRequests

(***************************************************************************)
(* Committing a handler's result.                                          *)
(***************************************************************************)
(* The backend's record of who is online after it received the posts in order. *)
RECURSIVE BackendPresenceAfter(_, _)
BackendPresenceAfter(online, posts) ==
  IF posts = <<>>
    THEN online
    ELSE LET post == Head(posts)
             next == IF post.messageType = "userOnline" THEN online \cup {post.uid}
                     ELSE IF post.messageType = "userOffline" THEN online \ {post.uid}
                     ELSE online
         IN BackendPresenceAfter(next, Tail(posts))

Commit(m, o) ==
  /\ transport' = m.transport
  /\ stamp' = m.stamp
  /\ preAuthSockets' = m.preAuthSockets
  /\ sockets' = m.sockets
  /\ authenticatedClients' = m.authenticatedClients
  /\ onlineUsers' = m.onlineUsers
  /\ channels' = m.channels
  /\ tokenChannels' = m.tokenChannels
  /\ presenceTimeoutIds' = m.presenceTimeoutIds
  /\ contentChannelTimeoutIds' = m.contentChannelTimeoutIds
  /\ stepCount' = stepCount + 1
  /\ keyCheck' = keyCheck
  /\ settings' = [settings EXCEPT !.debug = m.debug]
  /\ budget' = budget
  /\ backendPresence' = BackendPresenceAfter(backendPresence, m.posts)
  /\ out' = [o EXCEPT !.events = m.events, !.sent = m.sent, !.posts = m.posts]

(* The process is up and the run has handlers left. *)
Running == alive /\ stepCount < budget

(* An uncaught exception outside a route handler ends the process. *)
Crash(o) ==
  /\ alive' = FALSE
  /\ transport' = [s \in SocketIds |-> IF transport[s] = "open" THEN "closed" ELSE transport[s]]
  /\ stamp' = [s \in SocketIds |-> NoStamp]
  /\ preAuthSockets' = {}
  /\ sockets' = {}
  /\ authenticatedClients' = EmptyMap
  /\ onlineUsers' = EmptyMap
  /\ channels' = EmptyMap
  /\ tokenChannels' = EmptyMap
  /\ presenceTimeoutIds' = {}
  /\ contentChannelTimeoutIds' = {}
  /\ pending' = {}
  /\ stepCount' = stepCount + 1
  /\ keyCheck' = keyCheck
  /\ settings' = settings
  /\ budget' = budget
  /\ backendPresence' = backendPresence
  /\ out' = [o EXCEPT !.threw = TRUE]

(***************************************************************************)
(* Initial state: after construction of the ClientManager.                 *)
(***************************************************************************)
NoKeyCheck ==
  [configured |-> <<>>, header |-> NoHeader, xorDone |-> FALSE, plainDone |-> FALSE,
   result |-> FALSE, plain |-> FALSE, steps |-> 0]

InitStore ==
  /\ transport = [s \in SocketIds |-> "fresh"]
  /\ stamp = [s \in SocketIds |-> NoStamp]
  /\ preAuthSockets = {}
  /\ sockets = {}
  /\ authenticatedClients = EmptyMap
  /\ onlineUsers = EmptyMap
  /\ channels = EmptyMap
  /\ tokenChannels = EmptyMap
  /\ presenceTimeoutIds = {}
  /\ contentChannelTimeoutIds = {}
  /\ pending = {}
  /\ alive = TRUE
  /\ stepCount = 0
  /\ backendPresence = {}
  /\ out = NoOut

(* The configuration defaults: clients may not write to clients. *)
DefaultSettings == [clientsCanWriteToClients |-> FALSE, debug |-> TRUE]

Init ==
  /\ InitStore
  /\ keyCheck = NoKeyCheck
  /\ settings = DefaultSettings
  /\ budget = MaxSteps

(***************************************************************************)
(* Socket events.                                                          *)
(***************************************************************************)
(* io.on('connection') -> addSocket.  Ids are issued in order. *)
AddSocketOf(s) ==
  /\ Running
  /\ transport[s] = "fresh"
  /\ \A r \in SocketIds : r < s => transport[r] # "fresh"
  /\ LET m1 == [Machine EXCEPT !.transport[s] = "open", !.preAuthSockets = @ \cup {s}]
     IN Commit(Emit(m1, "client-connection", s), [NoOut EXCEPT !.op = "addSocket", !.sid = s])
  /\ UNCHANGED <<pending, alive>>

AddSocket == \E s \in SocketIds : AddSocketOf(s)

CachedIdentity(authToken) ==
  [authToken |-> authToken,
   uid |-> authenticatedClients[authToken].uid,
   channels |-> authenticatedClients[authToken].channels,
   presenceUids |-> authenticatedClients[authToken].presenceUids]

AuthRequest(s, message) ==
  [sid |-> s, authToken |-> message.authToken,
   contentTokens |-> message.contentTokens, ack |-> message.ack]

(* socket.on('authenticate') -> authenticateClient *)
AuthenticateClientOf(s, message) ==
  /\ Running
  /\ transport[s] = "open"
  /\ LET o == [NoOut EXCEPT !.op = "authenticateClient", !.sid = s,
                            !.authToken = message.authToken, !.wantsAck = message.ack,
                            !.contentTokens = message.contentTokens]
     IN IF message.authToken \in DOMAIN authenticatedClients
          THEN /\ Commit(SetupClientConnection(Machine, s, CachedIdentity(message.authToken),
                                               message.contentTokens), o)
               /\ UNCHANGED pending
          ELSE /\ Cardinality(pending) < MaxPending
               /\ AuthRequest(s, message) \notin pending
               /\ pending' = pending \cup {AuthRequest(s, message)}
               /\ Commit(Post(Machine, "authenticate", BackendUid(message.authToken)), o)
  /\ UNCHANGED alive

AuthenticateClient == \E s \in SocketIds, message \in AuthMessages : AuthenticateClientOf(s, message)

(* The backend's answer to an authenticate request arrives. *)
AuthenticateResponseOf(request, response) ==
  /\ Running
  /\ request \in pending
  /\ LET o == [NoOut EXCEPT !.op = "authenticateResponse", !.sid = request.sid,
                            !.authToken = request.authToken, !.response = response,
                            !.wantsAck = request.ack, !.contentTokens = request.contentTokens]
     IN IF AuthenticateClientCallbackResult(response)
          THEN /\ Commit(AuthenticateClientCallback(Machine, request, response),
                         [o EXCEPT !.ack = IF request.ack THEN 1 ELSE 0])
               /\ pending' = pending \ {request}
               /\ UNCHANGED alive
          ELSE IF request.sid \in preAuthSockets
                 THEN /\ Commit([SocketDisconnect(Machine, request.sid)
                                   EXCEPT !.preAuthSockets = @ \ {request.sid}], o)
                      /\ pending' = pending \ {request}
                      /\ UNCHANGED alive
                 ELSE Crash(o)

AuthenticateResponse ==
  \E request \in pending, response \in Responses : AuthenticateResponseOf(request, response)

(* The transport delivers 'disconnect' -> cleanupSocket *)
DisconnectOf(s) ==
  /\ Running
  /\ transport[s] = "open"
  /\ Commit(SocketDisconnect(Machine, s), [NoOut EXCEPT !.op = "disconnect", !.sid = s])
  /\ UNCHANGED <<pending, alive>>

Disconnect == \E s \in SocketIds : DisconnectOf(s)

(* The presence timer of a uid fires -> checkOnlineStatus *)
PresenceTimerFires(uid) ==
  /\ alive
  /\ uid \in presenceTimeoutIds
  /\ Commit(CheckOnlineStatusRun([Machine EXCEPT !.presenceTimeoutIds = @ \ {uid}], uid),
            [NoOut EXCEPT !.op = "checkOnlineStatus", !.uid = uid])
  /\ UNCHANGED <<pending, alive>>

CheckOnlineStatusOf(uid) == Running /\ PresenceTimerFires(uid)

CheckOnlineStatus == \E uid \in presenceTimeoutIds : CheckOnlineStatusOf(uid)

(* A token-channel timer fires -> checkTokenChannelStatus *)
CheckTokenChannelStatusOf(channel, uid) ==
  /\ Running
  /\ <<channel, uid>> \in contentChannelTimeoutIds
  /\ Commit(CheckTokenChannelStatusRun([Machine EXCEPT !.contentChannelTimeoutIds = @ \ {<<channel, uid>>}],
                                       channel, uid),
            [NoOut EXCEPT !.op = "checkTokenChannelStatus", !.channel = channel, !.uid = uid])
  /\ UNCHANGED <<pending, alive>>

CheckTokenChannelStatus ==
  \E t \in contentChannelTimeoutIds : CheckTokenChannelStatusOf(t[1], t[2])

(* socket.on('join-token-channel') -> joinTokenChannel *)
JoinTokenChannelOf(s, channel, token) ==
  /\ Running
  /\ transport[s] = "open"
  /\ Commit(JoinTokenChannel(Machine, s, TRUE, channel, TRUE, token),
            [NoOut EXCEPT !.op = "joinTokenChannel", !.sid = s, !.channel = channel,
                          !.contentTokens = {<<channel, token>>}])
  /\ UNCHANGED <<pending, alive>>

JoinTokenChannelEvent ==
  \E s \in SocketIds, channel \in TokenChannelNames, token \in ContentTokens :
    JoinTokenChannelOf(s, channel, token)

(* socket.on('message') -> processMessage; the exception of a null payload is
   caught by nobody. *)
ProcessMessageOf(s, message) ==
  /\ Running
  /\ transport[s] = "open"
  /\ LET r == ProcessMessage(Machine, settings.clientsCanWriteToClients, s, message)
         o == [NoOut EXCEPT !.op = "processMessage", !.sid = s, !.message = message]
     IN IF r.threw
          THEN Crash(o)
          ELSE Commit(r.m, o) /\ UNCHANGED <<pending, alive>>

ProcessMessageEvent == \E s \in SocketIds, message \in ClientMessages : ProcessMessageOf(s, message)

(***************************************************************************)
(* HTTP requests and calls made by extensions.                             *)
(***************************************************************************)
HttpRequestOf(request) ==
  /\ Running
  /\ LET r == Serve(Machine, request)
     IN Commit(r.m, [NoOut EXCEPT !.op = "http", !.gate = Gate(request),
                                  !.code = r.reply.code])
  /\ UNCHANGED <<pending, alive>>

HttpRequest == \E request \in Requests : HttpRequestOf(request)

(* An extension holding the ClientManager calls kickUser(uid) *)
KickUserOf(uid) ==
  /\ Running
  /\ Commit(KickUser(Machine, Num(uid)), [NoOut EXCEPT !.op = "kickUser", !.uid = uid])
  /\ UNCHANGED <<pending, alive>>

ExtKickUser == \E uid \in Uids : KickUserOf(uid)

(* An extension holding the ClientManager calls logoutUser(authToken) *)
LogoutUserOf(authToken) ==
  /\ Running
  /\ Commit(LogoutUser(Machine, authToken),
            [NoOut EXCEPT !.op = "logoutUser", !.authToken = authToken])
  /\ UNCHANGED <<pending, alive>>

ExtLogoutUser == \E authToken \in AuthTokens : LogoutUserOf(authToken)

(* An extension holding the ClientManager calls setUserPresenceList *)
SetUserPresenceListOf(uid, uidList) ==
  /\ Running
  /\ Commit(SetUserPresenceList(Machine, uid, uidList).m,
            [NoOut EXCEPT !.op = "setUserPresenceList", !.uid = uid])
  /\ UNCHANGED <<pending, alive>>

ExtSetUserPresenceList ==
  \E uid \in Uids \ {0}, uidList \in PresenceLists : SetUserPresenceListOf(uid, uidList)

(* An extension holding the ClientManager calls addUserToChannel(channel, uid);
   repeat tells that the handler before this one was the same call. *)
AddUserToChannelOf(channel, uid) ==
  /\ Running
  /\ LET r == AddUserToChannel(Machine, channel, Num(uid))
     IN Commit(r.m, [NoOut EXCEPT !.op = "addUserToChannel", !.channel = channel, !.uid = uid,
                                  !.result = r.result,
                                  !.repeat = (out.op = "addUserToChannel" /\ out.channel = channel
                                                /\ out.uid = uid)])
  /\ UNCHANGED <<pending, alive>>

ExtAddUserToChannel ==
  \E channel \in ChannelNames, uid \in Uids \ {0} : AddUserToChannelOf(channel, uid)

(* An extension holding the ClientManager marks a channel client-writable *)
SetClientWritableOf(channel) ==
  /\ Running
  /\ channel \in DOMAIN channels
  /\ Commit([Machine EXCEPT !.channels[channel].isClientWritable = TRUE],
            [NoOut EXCEPT !.op = "setClientWritable", !.channel = channel])
  /\ UNCHANGED <<pending, alive>>

ExtSetClientWritable == \E channel \in ChannelNames : SetClientWritableOf(channel)

Next ==
  \/ AddSocket
  \/ AuthenticateClient
  \/ AuthenticateResponse
  \/ Disconnect
  \/ CheckOnlineStatus
  \/ CheckTokenChannelStatus
  \/ HttpRequest
  \/ JoinTokenChannelEvent
  \/ ProcessMessageEvent
  \/ ExtKickUser
  \/ ExtLogoutUser
  \/ ExtSetUserPresenceList
  \/ ExtAddUserToChannel
  \/ ExtSetClientWritable

Spec == Init /\ [][Next]_vars

(***************************************************************************)
(* The socket lifecycle on its own, followed for longer runs: connections, *)
(* authentication, disconnects, presence timers, and kick and logout.      *)
(***************************************************************************)
InitSockets ==
  /\ InitStore
  /\ keyCheck = NoKeyCheck
  /\ settings = DefaultSettings
  /\ budget = MaxSocketSteps

NextSockets ==
  \/ AddSocket
  \/ AuthenticateClient
  \/ AuthenticateResponse
  \/ Disconnect
  \/ CheckOnlineStatus
  \/ ExtKickUser
  \/ ExtLogoutUser
  \/ ExtSetUserPresenceList

SpecSockets == InitSockets /\ [][NextSockets]_vars

(***************************************************************************)
(* The whole server under either value of clientsCanWriteToClients.        *)
(***************************************************************************)
InitMessage ==
  /\ InitStore
  /\ keyCheck = NoKeyCheck
  /\ settings \in {[DefaultSettings EXCEPT !.clientsCanWriteToClients = b] : b \in BOOLEAN}
  /\ budget = MaxSteps

SpecMessage == InitMessage /\ [][Next]_vars

(***************************************************************************)
(* Backend.checkServiceKey on its own: a configured key and a presented    *)
(* header are drawn, then each version of the function is called once.     *)
(***************************************************************************)
MaxKeyLen == 2
KeyChars == {0, 97, 353}
Keys == UNION {[1..n -> KeyChars] : n \in 0..MaxKeyLen}
KeyHeaders == {NoHeader} \cup {Header(k) : k \in Keys}

InitKey ==
  /\ InitStore
  /\ settings = DefaultSettings
  /\ budget = MaxSteps
  /\ \E configured \in Keys, header \in KeyHeaders :
       keyCheck = [NoKeyCheck EXCEPT !.configured = configured, !.header = header]

storeVars == <<transport, stamp, preAuthSockets, sockets, authenticatedClients,
               onlineUsers, channels, tokenChannels, presenceTimeoutIds,
               contentChannelTimeoutIds, pending, alive, settings, budget,
               backendPresence, stepCount, out>>

(* unnamed/part_003: the XOR-accumulating version *)
CheckServiceKeyCall ==
  /\ ~keyCheck.xorDone
  /\ LET run == CheckServiceKeyRun(keyCheck.configured, keyCheck.header)
     IN keyCheck' = [keyCheck EXCEPT !.xorDone = TRUE, !.result = run.result, !.steps = run.steps]
  /\ UNCHANGED storeVars

(* src/lib/backend.ts: the plain-comparison version *)
CheckServiceKeyPlainCall ==
  /\ ~keyCheck.plainDone
  /\ keyCheck' = [keyCheck EXCEPT !.plainDone = TRUE,
                                  !.plain = CheckServiceKeyPlain(keyCheck.configured, keyCheck.header)]
  /\ UNCHANGED storeVars

NextKey == CheckServiceKeyCall \/ CheckServiceKeyPlainCall

SpecKey == InitKey /\ [][NextKey]_vars

(***************************************************************************)
(* Properties.                                                             *)
(***************************************************************************)
(* The answers the authentication algorithm rejects: a transport error,
   status 404 or 301, a body that does not parse, body.error set, or
   nodejsValidAuthToken not true.  Every other answer is accepting. *)
RejectingAnswer(response) ==
  \/ response.error
  \/ response.statusCode \in {404, 301}
  \/ ~response.parses
  \/ response.bodyError
  \/ ~response.nodejsValidAuthToken

AcceptingAnswer(response) == ~RejectingAnswer(response)

(* the sockets figure a health check would report *)
HealthCheckSockets == GetStats(Machine).sockets

C1Step ==
  (out'.op = "authenticateResponse" /\ RejectingAnswer(out'.response) /\ out'.sid \in preAuthSockets)
    => /\ transport'[out'.sid] = "closed"
       /\ out'.sid \notin preAuthSockets'
       /\ out'.sid \notin sockets'
       /\ authenticatedClients' = authenticatedClients
       /\ out'.ack = 0
       /\ HealthCheckSockets' = Cardinality(sockets' \ {out'.sid})

C1Never ==
  \A s \in SocketIds : transport[s] = "closed" => s \notin sockets /\ s \notin preAuthSockets

(* C1: when the answer to the authenticate request of a socket in preAuth is a
   rejecting one, the step disconnects the socket, removes it from preAuth,
   does not put it in sockets, stores no identity, does not call the ack, and
   the health check's sockets figure does not count it; a disconnected socket
   is never in sockets afterwards. *)
C1_RejectedSocketIsDropped == [][C1Step]_vars /\ []C1Never

C1_Witness ==
  /\ alive
  /\ out.op = "authenticateResponse"
  /\ RejectingAnswer(out.response)
  /\ out.wantsAck
  /\ transport[out.sid] = "closed"

C2Step ==
  (out'.op = "authenticateResponse" /\ AcceptingAnswer(out'.response) /\ out'.sid \in preAuthSockets)
    => LET identity == BackendIdentity(out'.authToken)
       IN /\ out'.sid \in sockets'
          /\ out'.sid \notin preAuthSockets'
          /\ stamp'[out'.sid] = [authToken |-> identity.authToken, uid |-> identity.uid]
          /\ identity.authToken \in DOMAIN authenticatedClients'
          /\ authenticatedClients'[identity.authToken].uid = identity.uid
          /\ out'.ack = (IF out'.wantsAck THEN 1 ELSE 0)
          /\ HealthCheckSockets' = Cardinality(sockets) + 1

(* C2: when the answer to the authenticate request of a socket in preAuth is an
   accepting one naming that socket, the step moves the socket from preAuth to
   sockets, stamps the identity's authToken and uid on it, stores the identity
   under its authToken, calls the ack exactly once if one was given, and the
   health check's sockets figure counts the socket. *)
C2_AcceptedSocketIsSetUp == [][C2Step]_vars

C2_Witness ==
  /\ out.op = "authenticateResponse"
  /\ AcceptingAnswer(out.response)
  /\ out.sid \in sockets
  /\ out.ack = 1
  /\ stamp[out.sid].uid = 1

Is2xx(statusCode) == statusCode >= 200 /\ statusCode < 300

C3Step ==
  (out'.op = "authenticateResponse" /\ out'.sid \in sockets' /\ out'.sid \notin sockets)
    => Is2xx(out'.response.statusCode) /\ out'.response.nodejsValidAuthToken

(* C3: a backend answer moves a socket to sockets only when its status is 2xx
   and its body has nodejsValidAuthToken true. *)
C3_OnlySuccessStatusAuthorises == [][C3Step]_vars

C3_Witness ==
  /\ out.op = "authenticateResponse"
  /\ out.response.statusCode = 500
  /\ out.sid \in sockets

C4Replies ==
  \A request \in Requests :
    LET served == Serve(Machine, request)
    IN /\ (request.path # OutsidePath /\ request.header # Header(ServiceKey))
            => /\ served.reply = Error("Invalid service key.")
               /\ served.handler = "checkServiceKey"
               /\ served.m = Machine
       /\ (request.header = Header(ServiceKey) /\ <<request.method, request.path>> \in RouteTable)
            => served.handler = request.path
       /\ (request.header = Header(ServiceKey) /\ request.method = "GET" /\ request.path = UnknownPath)
            => served.handler = "send404" /\ served.reply.code = 404

C4Step ==
  (out'.op = "http" /\ out'.gate = "refused")
    => /\ out'.code = 200
       /\ out'.sent = {} /\ out'.events = <<>> /\ out'.posts = <<>>
       /\ UNCHANGED <<transport, stamp, preAuthSockets, sockets, authenticatedClients,
                      onlineUsers, channels, tokenChannels, presenceTimeoutIds,
                      contentChannelTimeoutIds, pending>>

(* C4: a request under baseAuthPath whose NodejsServiceKey header is missing or
   is not the configured key is answered {error: 'Invalid service key.'} by the
   gate, no route handler runs and nothing of the store changes; with the
   configured key the request reaches the handler of its route, and a GET of an
   unknown path is answered 404. *)
C4_ServiceKeyGate == []C4Replies /\ [][C4Step]_vars

C4_Witness ==
  /\ out.op = "http"
  /\ out.gate = "refused"
  /\ sockets # {}
  /\ DOMAIN channels # {}

(* the presented string: '' when the header is absent *)
Presented == HeaderValue(keyCheck.header)

Reference == keyCheck.configured = <<>> \/ Presented = keyCheck.configured

(* C5: each version of checkServiceKey returns what the reference "no key
   configured, or the presented key equals the configured key" returns: false
   when the lengths differ or a position differs, true when every position
   matches, true for any input when no key is configured; so the two versions
   agree. *)
C5_KeyCheckAgreesWithReference ==
  /\ keyCheck.xorDone => keyCheck.result = Reference
  /\ keyCheck.plainDone => keyCheck.plain = Reference
  /\ (keyCheck.xorDone /\ keyCheck.plainDone) => keyCheck.result = keyCheck.plain

C5_Witness ==
  /\ keyCheck.xorDone /\ keyCheck.plainDone
  /\ Len(keyCheck.configured) = MaxKeyLen
  /\ Len(Presented) = MaxKeyLen
  /\ Presented[1] = keyCheck.configured[1]
  /\ Presented # keyCheck.configured
  /\ ~keyCheck.result

(* C6: with a key configured, the number of comparison steps of checkServiceKey
   is the length of the presented key, and any other presented key of the same
   length takes the same number of steps, wherever the keys first differ from
   the configured one. *)
C6_StepsDependOnLengthOnly ==
  (keyCheck.xorDone /\ keyCheck.configured # <<>>)
    => /\ keyCheck.steps = Len(Presented)
       /\ \A other \in KeyHeaders :
            Len(HeaderValue(other)) = Len(Presented)
              => CheckServiceKeyRun(keyCheck.configured, other).steps = keyCheck.steps

C6_Witness ==
  /\ keyCheck.xorDone
  /\ Len(keyCheck.configured) = MaxKeyLen
  /\ Len(Presented) = MaxKeyLen
  /\ Presented[1] # keyCheck.configured[1]
  /\ keyCheck.steps = MaxKeyLen

(* C7: every socket in sockets carries an authToken that is a key of
   authenticatedClients. *)
C7_AuthenticatedSocketHasIdentity ==
  \A s \in sockets : stamp[s].authToken \in DOMAIN authenticatedClients

C7_Witness ==
  /\ out.op \in {"kickUser", "logoutUser"}
  /\ sockets # {}
  /\ DOMAIN authenticatedClients # {}

(* C8: every session id in the sessionIds of a channel is in sockets. *)
C8_ChannelSessionsAreAuthenticated ==
  \A c \in DOMAIN channels : channels[c].sessionIds \subseteq sockets

C8_Witness ==
  /\ out.op = "disconnect"
  /\ \E c \in DOMAIN channels : channels[c].sessionIds # {}

(* C9: every socket id that is a key of the sockets map of a token channel is
   in sockets, so that getContentTokenChannelUsers resolves every listed
   socket. *)
C9_TokenChannelSocketsAreAuthenticated ==
  \A tc \in DOMAIN tokenChannels :
    /\ DOMAIN tokenChannels[tc].sockets \subseteq sockets
    /\ ~GetContentTokenChannelUsers(Machine, tc).threw

C9_Witness ==
  /\ out.op = "kickUser"
  /\ \E tc \in DOMAIN tokenChannels :
       \E s \in DOMAIN tokenChannels[tc].sockets : s \notin sockets /\ stamp[s].uid = out.uid

(* C10: a uid is a key of onlineUsers if and only if some socket in sockets has
   that uid or the presence timer of that uid is armed. *)
C10_OnlineIffSocketOrTimer ==
  \A u \in Uids :
    u \in DOMAIN onlineUsers
      <=> ((\E s \in sockets : stamp[s].uid = u) \/ u \in presenceTimeoutIds)

C10_Witness ==
  /\ out.op = "kickUser"
  /\ out.uid \in DOMAIN onlineUsers
  /\ out.uid \notin presenceTimeoutIds
  /\ \A s \in sockets : stamp[s].uid # out.uid
  /\ \E s \in SocketIds : transport[s] = "open" /\ stamp[s].uid = out.uid

(* C11: no socket id is in both preAuthSockets and sockets, and every id in
   either belongs to a socket whose transport has connected and has not yet
   delivered disconnect. *)
C11_MapsDisjointAndLive ==
  /\ preAuthSockets \cap sockets = {}
  /\ \A s \in preAuthSockets \cup sockets : transport[s] = "open"

C11_Witness ==
  /\ out.op = "disconnect"
  /\ transport[out.sid] = "closed"
  /\ sockets # {}

(* what a step posted to the backend and sent as presence notifications *)
Posted(o, messageType, uid) ==
  \E i \in DOMAIN o.posts : o.posts[i] = [messageType |-> messageType, uid |-> uid]

Notified(o, uid, presenceEvent) ==
  \E x \in o.sent : x.message = Message("presenceNotification", uid, presenceEvent)

(* the last socket in sockets with uid u is the one that disconnects *)
C12LastDisconnects(u) ==
  /\ out'.op = "disconnect"
  /\ out'.sid \in sockets
  /\ \A s \in sockets : stamp[s].uid = u <=> s = out'.sid

(* the presence timer of u is armed and has not fired, u being online *)
C12InGrace(u) == u \in presenceTimeoutIds /\ u \in DOMAIN onlineUsers

C12Step ==
  \A u \in Uids \ {0} :
    /\ C12LastDisconnects(u)
          => /\ u \in presenceTimeoutIds'
             /\ ~Posted(out', "userOffline", u)
             /\ ~Notified(out', u, "offline")
             /\ u \in DOMAIN onlineUsers'
    /\ (C12InGrace(u) /\ \E s \in sockets' \ sockets : stamp'[s].uid = u)
          => /\ ~Posted(out', "userOnline", u)
             /\ ~Notified(out', u, "online")
             /\ u \in DOMAIN onlineUsers'
    /\ (out'.op = "checkOnlineStatus" /\ out'.uid = u /\ \E s \in sockets : stamp[s].uid = u)
          => /\ out'.posts = <<>>
             /\ out'.sent = {}
             /\ onlineUsers' = onlineUsers
    /\ (C12InGrace(u) /\ alive' /\ ~(out'.op = "checkOnlineStatus" /\ out'.uid = u))
          => u \in DOMAIN onlineUsers'

(* C12: when the last socket in sockets of a uid u > 0 disconnects, the step
   arms the presence timer of u, posts no userOffline, sends no 'offline'
   notification and leaves u in onlineUsers; while that timer is armed a socket
   that authenticates as u causes no userOnline post and no 'online'
   notification; the timer firing while a socket in sockets has uid u posts and
   sends nothing and leaves onlineUsers as it is; and u stays in onlineUsers
   until the timer fires. *)
C12_GracePeriodReconnectIsSilent == [][C12Step]_vars

C12_Witness ==
  /\ out.op = "authenticateClient"
  /\ out.sid \in sockets
  /\ stamp[out.sid].uid > 0
  /\ stamp[out.sid].uid \in presenceTimeoutIds
  /\ stamp[out.sid].uid \in DOMAIN onlineUsers
  /\ \A s \in sockets \ {out.sid} : stamp[s].uid # stamp[out.sid].uid
  /\ \E s \in SocketIds : transport[s] = "closed"
  /\ out.posts = <<>>

(* the sessions of the observers of u: the sockets whose uid is in u's list *)
C13Observers(u) ==
  {s \in sockets : u \in DOMAIN onlineUsers /\ stamp[s].uid \in Range(onlineUsers[u])}

C13Step ==
  (out'.op = "checkOnlineStatus")
    => LET u == out'.uid
       IN /\ UNCHANGED <<transport, stamp, preAuthSockets, sockets, authenticatedClients,
                         channels, tokenChannels, contentChannelTimeoutIds, pending>>
          /\ IF \A s \in sockets : stamp[s].uid # u
               THEN /\ onlineUsers' = MapDel(onlineUsers, u)
                    /\ out'.posts = <<[messageType |-> "userOffline", uid |-> u]>>
                    /\ out'.sent =
                         {[to |-> s, message |-> Message("presenceNotification", u, "offline")] :
                            s \in C13Observers(u)}
               ELSE /\ onlineUsers' = onlineUsers
                    /\ out'.posts = <<>>
                    /\ out'.sent = {}

(* C13: when the presence timer of uid u fires and no socket in sockets has
   uid u, u is removed from onlineUsers, exactly one userOffline message is
   posted, and the 'offline' notification about u goes to every session in
   sockets of every uid in u's list as stored before the removal; when a socket
   in sockets has uid u, the firing changes no map and sends and posts
   nothing. *)
C13_TimerSetsOfflineOnce == [][C13Step]_vars

C13_Witness ==
  /\ out.op = "checkOnlineStatus"
  /\ out.uid \notin DOMAIN onlineUsers
  /\ Len(out.posts) = 1
  /\ \E x \in out.sent : x.to \in sockets /\ x.message.info = "offline"

(* a step in which setupClientConnection ran to the end for socket s *)
C14SetUp(s) == s \in sockets' /\ s \notin sockets

C14Step ==
  \A s \in SocketIds :
    C14SetUp(s)
      => LET u == stamp'[s].uid
             announced == u > 0 /\ u \notin DOMAIN onlineUsers
         IN /\ Posted(out', "userOnline", u) <=> announced
            /\ announced
                  => /\ Len(out'.posts) = 1
                     /\ \A x \in sockets' :
                          stamp'[x].uid \in Range(onlineUsers'[u])
                            => [to |-> x, message |-> Message("presenceNotification", u, "online")]
                                 \in out'.sent
            /\ ~announced => (out'.posts = <<>> /\ \A v \in Uids : ~Notified(out', v, "online"))
            /\ u > 0 => u \in DOMAIN onlineUsers'
            /\ u = 0 => (onlineUsers' = onlineUsers /\ out'.posts = <<>>)

(* C14: a step in which setupClientConnection sets a socket up posts userOnline
   and sends the 'online' notification to the observers' sessions exactly when
   the identity's uid is greater than 0 and was not a key of onlineUsers before
   the step; for uid 0 onlineUsers is left as it is and nothing is posted. *)
C14_OnlineAnnouncedOnFirstSocket == [][C14Step]_vars

C14_Witness ==
  /\ out.op = "authenticateResponse"
  /\ out.sid \in sockets
  /\ Posted(out, "userOnline", stamp[out.sid].uid)
  /\ \E x \in out.sent : x.to # out.sid /\ x.message.info = "online"

(* the identity of token T is removed by kickUser of its uid or logoutUser of T *)
C15RemovedBy(T) ==
  \/ out'.op = "kickUser" /\ out'.uid = authenticatedClients[T].uid
  \/ out'.op = "logoutUser" /\ out'.authToken = T

C15Step ==
  /\ \A T \in DOMAIN authenticatedClients :
       (alive' /\ T \notin DOMAIN authenticatedClients') => C15RemovedBy(T)
  /\ (alive' /\ out'.op \in {"disconnect", "checkOnlineStatus", "checkTokenChannelStatus"})
       => authenticatedClients' = authenticatedClients
  /\ (out'.op = "authenticateClient" /\ out'.authToken \in DOMAIN authenticatedClients
         /\ out'.sid \in preAuthSockets)
       => /\ out'.sid \in sockets'
          /\ out'.sid \notin preAuthSockets'
          /\ stamp'[out'.sid] = [authToken |-> out'.authToken,
                                 uid |-> authenticatedClients[out'.authToken].uid]
          /\ \A i \in DOMAIN out'.posts : out'.posts[i].messageType # "authenticate"
          /\ pending' = pending

(* C15: the identity stored for a token stays through every disconnect and
   every timer firing and is removed only by logoutUser of the token or kickUser
   of its uid; while it is stored, a socket in preAuthSockets that sends
   authenticate with the token is moved to sockets in that step and no
   authenticate message goes to the backend. *)
C15_IdentityOutlivesSockets == [][C15Step]_vars

C15_Witness ==
  /\ out.op = "authenticateClient"
  /\ out.sid \in sockets
  /\ Posted(out, "userOnline", stamp[out.sid].uid)
  /\ presenceTimeoutIds = {}
  /\ out.contentTokens = {}
  /\ DOMAIN tokenChannels # {}   \* left by the set-up of an earlier socket
  /\ \A s \in SocketIds \ {out.sid} : transport[s] = "closed"

ChannelEvent(s) == <<[name |-> "client-to-channel-message", sid |-> s]>>
ClientEvent(s) == <<[name |-> "client-to-client-message", sid |-> s]>>

(* the conditions under which a message may go to a channel, and to clients *)
C16ToChannel(s, message) ==
  /\ s \in sockets
  /\ ~message.nullish /\ message.hasType /\ message.hasChannel
  /\ message.channel \in DOMAIN channels
  /\ channels[message.channel].isClientWritable
  /\ s \in channels[message.channel].sessionIds

C16ToClients(s, message, clientsCanWriteToClients) ==
  /\ s \in sockets
  /\ ~message.nullish /\ message.hasType /\ ~message.hasChannel
  /\ clientsCanWriteToClients

(* processMessage applied to any sender and message in a reachable store *)
C16Function ==
  \A s \in SocketIds, message \in ClientMessages :
    LET r == ProcessMessage(Machine, settings.clientsCanWriteToClients, s, message)
    IN /\ [r.m EXCEPT !.events = <<>>] = Machine
       /\ r.m.events = (IF C16ToChannel(s, message) THEN ChannelEvent(s)
                        ELSE IF C16ToClients(s, message, settings.clientsCanWriteToClients)
                          THEN ClientEvent(s)
                          ELSE <<>>)

C16Step ==
  /\ (out'.op = "processMessage" /\ alive')
       => /\ UNCHANGED <<transport, stamp, preAuthSockets, sockets, authenticatedClients,
                         onlineUsers, channels, tokenChannels, presenceTimeoutIds,
                         contentChannelTimeoutIds, pending>>
          /\ out'.sent = {} /\ out'.posts = <<>>
          /\ out'.events = ChannelEvent(out'.sid) => C16ToChannel(out'.sid, out'.message)
          /\ out'.events = ClientEvent(out'.sid)
               => C16ToClients(out'.sid, out'.message, settings.clientsCanWriteToClients)
          /\ out'.events \in {<<>>, ChannelEvent(out'.sid), ClientEvent(out'.sid)}
  /\ \A c \in (DOMAIN channels') \ (DOMAIN channels) : ~channels'[c].isClientWritable

(* C16: processMessage emits client-to-channel-message only when the sender is
   in sockets, the message has a type, and the named channel exists, is
   client-writable and has the sender as a member; it emits
   client-to-client-message only when the sender is in sockets, the message
   has a type and no channel and clientsCanWriteToClients is set; otherwise it
   emits nothing; it never changes a map; and a channel is not client-writable
   when it is created. *)
C16_MessagesNeedPermission == []C16Function /\ [][C16Step]_vars

C16_Witness ==
  /\ out.op = "processMessage"
  /\ out.sid \in sockets
  /\ out.message.hasType /\ out.message.hasChannel
  /\ out.message.channel \in DOMAIN channels
  /\ channels[out.message.channel].isClientWritable
  /\ out.sid \notin channels[out.message.channel].sessionIds
  /\ out.events = <<>>

AllTokenChannels == TokenChannelNames \cup {OtherTokenChannel}

(* tokenChannels[tc], or an empty token channel when there is none *)
TokenChannelOf(all, tc) == IF tc \in DOMAIN all THEN all[tc] ELSE NoTokenChannel

JoinedFanOut(o) ==
  {x \in o.sent : x.message.kind = "clientJoinedTokenChannel"}

(* the step presents token k for token channel tc from socket s: by
   join-token-channel, or by the contentTokens of an authentication that sets
   the socket up *)
C17Presents(s, tc, k) ==
  /\ out'.sid = s
  /\ <<tc, k>> \in out'.contentTokens
  /\ \/ out'.op = "joinTokenChannel" /\ s \in sockets
     \/ out'.op \in {"authenticateClient", "authenticateResponse"} /\ C14SetUp(s)

C17Step ==
  \A tc \in AllTokenChannels :
    LET before == TokenChannelOf(tokenChannels, tc)
        after == TokenChannelOf(tokenChannels', tc)
        added == (DOMAIN after.sockets) \ (DOMAIN before.sockets)
    IN /\ Cardinality(added) <= 1
       /\ \A s \in added :
            /\ s \in sockets'
            /\ \E k \in DOMAIN before.tokens :
                 /\ C17Presents(s, tc, k)
                 /\ after.sockets[s] = before.tokens[k]
                 /\ k \notin DOMAIN after.tokens
       /\ \A s \in SocketIds, k \in ContentTokens :
            C17Presents(s, tc, k)
              => IF k \in DOMAIN before.tokens
                   THEN /\ s \in DOMAIN after.sockets
                        /\ after.sockets[s] = before.tokens[k]
                        /\ k \notin DOMAIN after.tokens
                   ELSE /\ DOMAIN after.sockets = DOMAIN before.sockets
                        /\ JoinedFanOut(out') = {}
       /\ (alive' /\ \E k \in DOMAIN before.tokens : k \notin DOMAIN after.tokens)
            => added # {} \/ out'.sid \in DOMAIN before.sockets
       /\ (out'.op = "joinTokenChannel" /\ out'.sid \notin sockets)
            => tokenChannels' = tokenChannels /\ out'.sent = {}

(* C17: a stored content token admits at most one socket: a socket enters the
   sockets map of a token channel only by presenting a token held in tokens,
   from a socket that is in sockets after the step, and it gets the token's
   payload while the token is deleted; presenting a token that is not in
   tokens adds no socket and causes no clientJoinedTokenChannel fan-out; a join
   from a socket that is not in sockets changes nothing. *)
C17_ContentTokenAdmitsOneSocket == [][C17Step]_vars

C17_Witness ==
  /\ out.op = "authenticateClient"
  /\ out.sid \in sockets
  /\ \E p \in out.contentTokens :
       /\ p[1] \in DOMAIN tokenChannels
       /\ p[2] \notin DOMAIN tokenChannels[p[1]].tokens
       /\ out.sid \notin DOMAIN tokenChannels[p[1]].sockets
       /\ \E s \in DOMAIN tokenChannels[p[1]].sockets : s \in sockets
  /\ Len(out.events) = 1

(* the token channels that hold token k in their tokens map *)
HoldersOf(k) == {tc \in DOMAIN tokenChannels : k \in DOMAIN tokenChannels[tc].tokens}

(* C18: a content token is a key of the tokens map of at most one token
   channel. *)
C18_TokenInAtMostOneChannel ==
  \A k \in ContentTokens : Cardinality(HoldersOf(k)) <= 1

C18_Witness ==
  /\ out.op = "http"
  /\ \E k \in ContentTokens : HoldersOf(k) = AllTokenChannels

(* the channel names the routes accept *)
C19Names == ChannelNames \cup PrototypeNames

ChannelRequest(method, path, X) == [Req(method, path) EXCEPT !.channel = X]

(* the reply of GET channel/check/X in store m *)
CheckReply(m, X) == Serve(m, ChannelRequest("GET", "channel/check", X)).reply

C19RoundTrip ==
  \A X \in C19Names :
    LET added == Serve(Machine, ChannelRequest("POST", "channel/add", X))
        removed == Serve(Machine, ChannelRequest("POST", "channel/remove", X))
    IN /\ added.reply = Success
            => CheckReply(added.m, X) = [Success EXCEPT !.result = "true"]
       /\ removed.reply = Success
            => CheckReply(removed.m, X) = [Success EXCEPT !.result = "false"]

(* between two states the answer of checkChannel(X) changes only when the
   channel is removed or created *)
C19Until ==
  \A X \in C19Names :
    LET now == [Machine EXCEPT !.channels = channels']
    IN alive'
         => /\ (CheckReply(Machine, X).result = "true" /\ CheckReply(now, X).result = "false")
                  => (X \in DOMAIN channels /\ X \notin DOMAIN channels')
            /\ (CheckReply(Machine, X).result = "false" /\ CheckReply(now, X).result = "true")
                  => (X \notin DOMAIN channels /\ X \in DOMAIN channels')

(* C19: for every valid channel name X and from every reachable state, after
   channel/add/X replies success, channel/check/X replies success with result
   true until the channel is removed, and after channel/remove/X replies
   success, channel/check/X replies result false until the channel is created
   again. *)
C19_ChannelRoundTrip == []C19RoundTrip /\ [][C19Until]_vars

C19_Witness ==
  /\ out.op = "http"
  /\ out.gate = "passed"
  /\ \E X \in C19Names :
       /\ Serve(Machine, ChannelRequest("POST", "channel/remove", X)).reply = Success
       /\ X \notin DOMAIN channels
       /\ CheckReply(Machine, X).result = "true"

(* the round trip for the names that no object inherits *)
C19OwnNamesRoundTrip ==
  \A X \in ChannelNames :
    LET added == Serve(Machine, ChannelRequest("POST", "channel/add", X))
        removed == Serve(Machine, ChannelRequest("POST", "channel/remove", X))
    IN /\ added.reply = Success
            => CheckReply(added.m, X) = [Success EXCEPT !.result = "true"]
       /\ removed.reply = Success
            => CheckReply(removed.m, X) = [Success EXCEPT !.result = "false"]

(* the uid as an extension passes it and as the route passes it *)
C20Uids == {Num(u) : u \in Uids} \cup {Str(u) : u \in Uids}

C20Members(m, c) == IF c \in DOMAIN m.channels THEN m.channels[c].sessionIds ELSE {}

C20IdentityChannels(m) == [t \in DOMAIN m.authenticatedClients |-> m.authenticatedClients[t].channels]

(* addUserToChannel(c, u) applied to the current store once and twice *)
C20Function ==
  \A c \in ChannelNames, u \in C20Uids :
    LET once == AddUserToChannel(Machine, c, u)
        twice == AddUserToChannel(once.m, c, u)
    IN /\ C20Members(twice.m, c) = C20Members(once.m, c)
       /\ C20IdentityChannels(twice.m) = C20IdentityChannels(once.m)
       /\ twice.result = once.result
       /\ twice.m = once.m

(* POST user/channel/add/c/u served once and twice *)
C20Route ==
  \A c \in ChannelNames, u \in Uids :
    LET request == [Req("POST", "user/channel/add") EXCEPT !.channel = c, !.uid = Str(u)]
        once == Serve(Machine, request)
        twice == Serve(once.m, request)
    IN /\ C20Members(twice.m, c) = C20Members(once.m, c)
       /\ C20IdentityChannels(twice.m) = C20IdentityChannels(once.m)
       /\ twice.reply = once.reply

(* a call that directly follows the same call *)
C20Step ==
  (out'.op = "addUserToChannel" /\ out'.repeat)
    => /\ C20Members(Machine, out'.channel) = C20Members([Machine EXCEPT !.channels = channels'], out'.channel)
       /\ C20IdentityChannels(Machine)
            = C20IdentityChannels([Machine EXCEPT !.authenticatedClients = authenticatedClients'])
       /\ out'.result = out.result

(* C20: for every channel c and uid u, in every reachable state, calling
   addUserToChannel(c, u) twice in a row leaves the same member set of c, the
   same channels sequence in every identity and the same reply as calling it
   once. *)
C20_AddUserToChannelIdempotent == []C20Function /\ []C20Route /\ [][C20Step]_vars

C20_Witness ==
  /\ out.op = "addUserToChannel"
  /\ out.repeat
  /\ out.result
  /\ C20Members(Machine, out.channel) # {}
  /\ \E t \in DOMAIN authenticatedClients :
       /\ StrictEquals(authenticatedClients[t].uid, Num(out.uid))
       /\ Cardinality({i \in DOMAIN authenticatedClients[t].channels :
                         authenticatedClients[t].channels[i] = out.channel}) = 1

(* the number of times a channel is listed in an identity's channels *)
Listed(identity, c) == Cardinality({i \in DOMAIN identity.channels : identity.channels[i] = c})

UserChannelRequest(path, c, u) == [Req("POST", path) EXCEPT !.channel = c, !.uid = Str(u)]

IdentitiesOf(m, u) == {t \in DOMAIN m.authenticatedClients : m.authenticatedClients[t].uid = u}

(* a socket waiting in preAuthSockets that authenticates from the cache with
   authToken t is a member of channel c afterwards *)
CachedSetupJoins(m, t, c) ==
  \A s \in m.preAuthSockets :
    ClientIsInChannel(SetupClientConnection(m, s, m.authenticatedClients[t], {}), s, c)

(* C21: after POST user/channel/add/c/u replies success, every authenticated
   session of u is a member of c, every identity whose uid is u lists c
   exactly once in its channels, and a socket that then authenticates from
   such a cached identity joins c. *)
C21_AddUserToChannelReachesSessionsAndIdentities ==
  \A c \in ChannelNames, u \in Uids :
    LET r == Serve(Machine, UserChannelRequest("user/channel/add", c, u))
    IN r.reply = Success
         => /\ \A s \in GetNodejsSessionIdsFromUid(r.m, u) : ClientIsInChannel(r.m, s, c)
            /\ \A t \in IdentitiesOf(r.m, u) :
                 /\ Listed(r.m.authenticatedClients[t], c) = 1
                 /\ CachedSetupJoins(r.m, t, c)

(* a user with an open session and an identity without the channel, another
   socket waiting to authenticate *)
C21_Witness ==
  \E c \in ChannelNames, u \in Uids :
    /\ Serve(Machine, UserChannelRequest("user/channel/add", c, u)).reply = Success
    /\ \E t \in IdentitiesOf(Machine, u) : Listed(authenticatedClients[t], c) = 0
    /\ preAuthSockets # {}

(* the sessions part of C21 alone *)
C21SessionsJoin ==
  \A c \in ChannelNames, u \in Uids :
    LET r == Serve(Machine, UserChannelRequest("user/channel/add", c, u))
    IN r.reply = Success
         => \A s \in GetNodejsSessionIdsFromUid(r.m, u) : ClientIsInChannel(r.m, s, c)

(* what a socket that authenticates from the cache with authToken t joins *)
CachedSetupStaysOut(m, t, c) ==
  \A s \in m.preAuthSockets :
    ~ClientIsInChannel(SetupClientConnection(m, s, m.authenticatedClients[t], {}), s, c)

C22OnExisting(c, u) ==
  LET r == Serve(Machine, UserChannelRequest("user/channel/remove", c, u))
  IN c \in DOMAIN channels
       => /\ r.reply = Success
          /\ \A s \in GetNodejsSessionIdsFromUid(r.m, u) : ~ClientIsInChannel(r.m, s, c)
          /\ \A t \in IdentitiesOf(r.m, u) :
               /\ Listed(r.m.authenticatedClients[t], c) = 0
               /\ CachedSetupStaysOut(r.m, t, c)

C22OnAbsent(c, u) ==
  LET r == Serve(Machine, UserChannelRequest("user/channel/remove", c, u))
  IN c \notin DOMAIN channels
       => /\ r.reply.status = "failed"
          /\ r.m = Machine

(* C22: POST user/channel/remove/c/u on an existing channel replies success
   and afterwards no session of u is a member of c, no identity whose uid is u
   lists c, and a socket that then authenticates from such a cached identity
   does not join c; on an absent channel it replies failed and changes
   nothing. *)
C22_RemoveUserFromChannelReverses ==
  \A c \in ChannelNames, u \in Uids : C22OnExisting(c, u) /\ C22OnAbsent(c, u)

(* a user with an open session in the channel and an identity that lists it *)
C22_Witness ==
  \E c \in DOMAIN channels, u \in Uids :
    /\ Serve(Machine, UserChannelRequest("user/channel/remove", c, u)).reply = Success
    /\ \E s \in GetNodejsSessionIdsFromUid(Machine, u) : ClientIsInChannel(Machine, s, c)
    /\ \E t \in IdentitiesOf(Machine, u) : Listed(authenticatedClients[t], c) = 1
    /\ preAuthSockets # {}

(* the parts of C22 about the reply and the sessions *)
C22RepliesAndSessions ==
  \A c \in ChannelNames, u \in Uids :
    LET r == Serve(Machine, UserChannelRequest("user/channel/remove", c, u))
    IN /\ C22OnAbsent(c, u)
       /\ c \in DOMAIN channels
            => /\ r.reply = Success
               /\ \A s \in GetNodejsSessionIdsFromUid(r.m, u) : ~ClientIsInChannel(r.m, s, c)

KickRequest(u) == [Req("POST", "user/kick") EXCEPT !.uid = Str(u)]

InSomeChannel(m, s) == \E c \in DOMAIN m.channels : s \in m.channels[c].sessionIds

(* C23: after POST user/kick/u replies success, no identity with uid u
   remains, no socket with uid u is in sockets, no session of such a socket is
   a member of a channel, and the transport of every such socket is closed. *)
C23_KickUserPurgesUser ==
  \A u \in Uids :
    LET r == Serve(Machine, KickRequest(u))
        theirs == GetNodejsSessionIdsFromUid(Machine, u)
    IN r.reply = Success
         => /\ IdentitiesOf(r.m, u) = {}
            /\ GetNodejsSessionIdsFromUid(r.m, u) = {}
            /\ \A s \in theirs : ~InSomeChannel(r.m, s) /\ r.m.transport[s] = "closed"

(* the user has an identity and an open session that is in a channel *)
C23_Witness ==
  \E u \in Uids :
    /\ Serve(Machine, KickRequest(u)).reply = Success
    /\ IdentitiesOf(Machine, u) # {}
    /\ \E s \in GetNodejsSessionIdsFromUid(Machine, u) : InSomeChannel(Machine, s)

(* kickUser called with the uid as a number, as an extension calls it *)
C23NumericKick ==
  \A u \in Uids :
    LET m == KickUser(Machine, Num(u))
    IN /\ IdentitiesOf(m, u) = {}
       /\ GetNodejsSessionIdsFromUid(m, u) = {}
       /\ \A s \in GetNodejsSessionIdsFromUid(Machine, u) : ~InSomeChannel(m, s)

LogoutRequest(T) == [Req("POST", "user/logout") EXCEPT !.authToken = T]

InSomeTokenChannel(m, s) == \E tc \in DOMAIN m.tokenChannels : s \in DOMAIN m.tokenChannels[tc].sockets

(* store m after a logout of T from store before *)
LoggedOut(before, m, T) ==
  /\ T \notin DOMAIN m.authenticatedClients
  /\ \A s \in GetNodejsSessionIdsFromAuthToken(before, T) :
       /\ s \notin m.sockets
       /\ ~InSomeChannel(m, s)
       /\ ~InSomeTokenChannel(m, s)

(* C24: after POST user/logout/T replies success, T is not a key of
   authenticatedClients and every socket that was authenticated with T is no
   longer in sockets, in a channel's sessionIds or in a token channel. *)
C24_LogoutUserCleansUp ==
  \A T \in AuthTokens :
    LET r == Serve(Machine, LogoutRequest(T))
    IN r.reply = Success => LoggedOut(Machine, r.m, T)

(* T has an identity and an open session *)
C24_Witness ==
  \E T \in DOMAIN authenticatedClients :
    /\ Serve(Machine, LogoutRequest(T)).reply = Success
    /\ GetNodejsSessionIdsFromAuthToken(Machine, T) # {}

(* ClientManager.logoutUser itself, as an extension calls it *)
C24ManagerLogout == \A T \in AuthTokens : LoggedOut(Machine, LogoutUser(Machine, T), T)

PublishRequest(hasChannel, c, broadcast) ==
  [Req("POST", "publish") EXCEPT !.hasChannel = hasChannel, !.channel = c, !.broadcast = broadcast]

(* the sockets a handler's sends went to *)
DeliveredTo(m) == {d.to : d \in m.sent}

MembersInSockets(m, c) ==
  IF c \in DOMAIN m.channels THEN m.channels[c].sessionIds \cap m.sockets ELSE {}

C25Route ==
  \A h \in BOOLEAN, b \in BOOLEAN, c \in ChannelNames :
    LET r == Serve(Machine, PublishRequest(h, c, b))
    IN r.reply.status = "success"
         => /\ r.reply.sent = Cardinality(r.m.sent)
            /\ r.reply.sent = Cardinality(DeliveredTo(r.m))
            /\ DeliveredTo(r.m) = IF b THEN sockets ELSE MembersInSockets(Machine, c)

(* publishMessageToChannel on a message without channel or with a channel
   that does not exist *)
C25Function ==
  \A h \in BOOLEAN, c \in ChannelNames :
    LET r == PublishMessageToChannel(Machine, h, c, Message("published", UidUndefined, c))
    IN /\ r.count = Cardinality(DeliveredTo(r.m))
       /\ (~h \/ c \notin DOMAIN channels) => (r.count = 0 /\ r.m = Machine)

(* a publish request that was served: its deliveries went to sockets only *)
C25Step ==
  (out'.op = "http" /\ \E i \in DOMAIN out'.events : out'.events[i].name = "message-published")
    => {d.to : d \in out'.sent} \subseteq sockets

(* C25: the sent:N of the publish verb's reply is the number of sockets the
   message was delivered to; a channel publish delivers to the members of the
   channel that are in sockets, and to nobody with count 0 when the channel
   field is missing or the channel does not exist; a broadcast delivers to
   every socket in sockets and to no other. *)
C25_PublishCountsDeliveries == []C25Route /\ []C25Function /\ [][C25Step]_vars

(* a served publish that reached a socket while another connection was not
   reached *)
C25_Witness ==
  /\ out.op = "http"
  /\ \E i \in DOMAIN out.events : out.events[i].name = "message-published"
  /\ out.sent # {}
  /\ {d.to : d \in out.sent} \subseteq sockets
  /\ preAuthSockets # {}

(* the token channel names and tokens a backend may send *)
C26Channels == TokenChannelNames \cup {OtherTokenChannel} \cup PrototypeNames
C26Tokens == ContentTokens \cup {"k2"}

ContentTokenRequest(c, k, n) ==
  [Req("POST", "content/token") EXCEPT !.channel = c, !.token = k, !.notifyOnDisconnect = n]

TokenChannelOrNew(m, c) == IF c \in DOMAIN m.tokenChannels THEN m.tokenChannels[c] ELSE NoTokenChannel

C26Effect(c, k, n) ==
  LET r == Serve(Machine, ContentTokenRequest(c, k, n))
      before == TokenChannelOrNew(Machine, c)
  IN /\ r.reply = Success
     /\ c \in DOMAIN r.m.tokenChannels
     /\ DOMAIN r.m.tokenChannels = (DOMAIN tokenChannels) \cup {c}
     /\ DOMAIN r.m.tokenChannels[c].tokens = (DOMAIN before.tokens) \cup {k}
     /\ r.m.tokenChannels[c].tokens[k] = [notifyOnDisconnect |-> n]
     /\ \A k2 \in (DOMAIN before.tokens) \ {k} : r.m.tokenChannels[c].tokens[k2] = before.tokens[k2]
     /\ r.m.tokenChannels[c].sockets = before.sockets
     /\ \A c2 \in (DOMAIN tokenChannels) \ {c} : r.m.tokenChannels[c2] = tokenChannels[c2]
     /\ c \in Serve(r.m, Req("GET", "health/check")).reply.stats.contentTokens

(* C26: POST content/token with channel c and token t present always replies
   success, creates token channel c if it is absent, sets tokens[t] of c to
   the body, leaves the sockets map of c, the other tokens of c and every
   other token channel unchanged, and afterwards the health check's
   contentTokens has the key c. *)
C26_SetContentTokenStoresToken ==
  \A c \in C26Channels, k \in C26Tokens, n \in BOOLEAN : C26Effect(c, k, n)

(* a content token was set on a token channel that holds a socket *)
C26_Witness ==
  /\ out.op = "http"
  /\ \E c \in DOMAIN tokenChannels :
       /\ DOMAIN tokenChannels[c].tokens # {}
       /\ DOMAIN tokenChannels[c].sockets # {}

(* the same for the token channel names that no object inherits *)
C26OwnNames ==
  \A c \in C26Channels \ PrototypeNames, k \in C26Tokens, n \in BOOLEAN : C26Effect(c, k, n)

(* the :uid and :uidList segments of a request path: digit strings and one
   that is not *)
C27Uids == {Str(u) : u \in Uids} \cup {Text}
C27Lists == {<<a>> : a \in C27Uids} \cup {<<a, b>> : a \in C27Uids, b \in C27Uids}

PresenceListRequest(uid, uidList) ==
  [Req("GET", "user/presence-list") EXCEPT !.uid = uid, !.uidList = uidList]

AllDigits(uid, uidList) == ValidUid(uid) /\ \A i \in DOMAIN uidList : ValidUid(uidList[i])

(* C27: GET user/presence-list/:uid/:uidList with a digit-string uid and a list
   of digit strings stores the list as the presence list of uid and replies
   success; with a uid or an entry that is not a digit string it replies
   failed and leaves the presence lists unchanged; the handler raises no error
   in either case. *)
C27_PresenceListStoredOrRefused ==
  \A uid \in C27Uids, uidList \in C27Lists :
    LET r == Serve(Machine, PresenceListRequest(uid, uidList))
    IN /\ r.reply.code # 500
       /\ IF AllDigits(uid, uidList)
            THEN /\ r.reply = Success
                 /\ uid.n \in DOMAIN r.m.onlineUsers
                 /\ r.m.onlineUsers[uid.n] = [i \in DOMAIN uidList |-> uidList[i].n]
            ELSE /\ r.reply.status = "failed"
                 /\ r.m.onlineUsers = onlineUsers

(* a served presence-list request that ended in the error handler *)
C27_Witness ==
  /\ out.op = "http"
  /\ out.gate = "passed"
  /\ out.code = 500
  /\ DOMAIN tokenChannels = {}
  /\ Serve(Machine, PresenceListRequest(Str(1), <<Str(2)>>)).reply = ServerError

(* a disconnect of a socket whose authenticate request is in flight *)
C28DisconnectInFlight ==
  (out'.op = "disconnect" /\ out'.sid \in preAuthSockets /\ \E request \in pending : request.sid = out'.sid)
    => /\ out'.sid \notin preAuthSockets'
       /\ alive'
       /\ ~out'.threw

(* the backend's answer arrives for a socket that is no longer in
   preAuthSockets: it disconnected, or it is in sockets already *)
C28LateAnswer ==
  (out'.op = "authenticateResponse" /\ out'.sid \notin preAuthSockets)
    => /\ alive'
       /\ ~out'.threw

(* C28: a disconnect while the authenticate request is in flight removes the
   socket from preAuthSockets, and the backend's answer that arrives later,
   accepting or rejecting or a transport error, is handled without an
   exception; so is a rejecting answer to an authenticate sent by a socket
   that is already in sockets; the process survives these interleavings. *)
C28_LateAnswerIsHarmless == [][C28DisconnectInFlight /\ C28LateAnswer]_vars

(* the process died handling the answer for a socket that had gone away *)
C28_Witness ==
  /\ ~alive
  /\ out.op = "authenticateResponse"
  /\ out.threw
  /\ RejectingAnswer(out.response)

(* the parts of C28 about the disconnect and about an accepting answer *)
C28AcceptedLate ==
  [][/\ C28DisconnectInFlight
     /\ (out'.op = "authenticateResponse" /\ out'.sid \notin preAuthSockets
           /\ AcceptingAnswer(out'.response))
          => (alive' /\ ~out'.threw)]_vars

C29Message == Message("published", UidUndefined, "")

(* every fan-out primitive applied to the current store *)
C29FanOuts ==
  {PublishMessageToChannel(Machine, TRUE, c, C29Message).m : c \in ChannelNames}
  \cup {BroadcastMessage(Machine, C29Message)}
  \cup {PublishMessageToContentChannel(Machine, tc, C29Message).m : tc \in AllTokenChannels}
  \cup {CheckTokenChannelStatusRun(Machine, tc, u) : tc \in AllTokenChannels, u \in Uids}
  \cup {SendPresenceChangeNotification(Machine, u, e) : u \in Uids, e \in {"online", "offline"}}
  \cup {PublishMessageToClient(Machine, s, C29Message) : s \in SocketIds}

C29Function ==
  /\ \A m \in C29FanOuts : DeliveredTo(m) \subseteq sockets
  /\ \A s \in SocketIds \ sockets :
       /\ ~PublishMessageToClientResult(Machine, s)
       /\ PublishMessageToClient(Machine, s, C29Message) = Machine

(* the payloads a handler sent went to sockets it found, or put, in sockets *)
C29Step ==
  /\ {d.to : d \in out'.sent} \subseteq sockets \cup sockets'
  /\ {d.to : d \in out'.sent} \cap (preAuthSockets' \cup {s \in SocketIds : transport'[s] # "open"}) = {}

(* C29: a socket that is not in sockets at the moment of a delivery, because
   it is still in preAuthSockets or was disconnected, kicked or logged out,
   receives no payload: channel publish, broadcast, token-channel fan-out,
   token-channel disconnect notification and presence notification go only to
   sockets that are in sockets, and publishMessageToClient for an absent
   session returns false and raises nothing. *)
C29_OnlyAuthenticatedSocketsReceive == []C29Function /\ [][C29Step]_vars

(* a published message reached the authenticated sockets while a connected
   socket outside sockets got nothing *)
C29_Witness ==
  /\ \E d \in out.sent : d.message.kind = "published"
  /\ {d.to : d \in out.sent} = sockets
  /\ \E s \in SocketIds \ sockets : transport[s] = "open"

ToggleDebugRequest(d) == [Req("POST", "debug/toggle") EXCEPT !.debug = d]

(* C30: POST debug/toggle with body field debug = d sets settings.debug to d
   and replies success, for d = true and for d = false, whatever the setting
   was before; so debugging that one call turned on is turned off by a later
   call. *)
C30_ToggleDebugSetsFlag ==
  \A d \in BOOLEAN, before \in BOOLEAN :
    LET r == Serve([Machine EXCEPT !.debug = before], ToggleDebugRequest(d))
    IN /\ r.reply = Success
       /\ r.m.debug = d

(* debugging is on and a served request to turn it off leaves it on *)
C30_Witness ==
  /\ out.op = "http"
  /\ out.gate = "passed"
  /\ settings.debug
  /\ Serve(Machine, ToggleDebugRequest(FALSE)).m.debug

(* the part of C30 for d = true *)
C30TurnsOn ==
  \A before \in BOOLEAN :
    LET r == Serve([Machine EXCEPT !.debug = before], ToggleDebugRequest(TRUE))
    IN r.reply = Success /\ r.m.debug

(* the sockets a token channel holds, none when the channel does not exist *)
SocketsIn(all, tc) == IF tc \in DOMAIN all THEN DOMAIN all[tc].sockets ELSE {}

C31Presence ==
  \A s \in sockets' \ sockets : stamp'[s].uid \notin presenceTimeoutIds'

C31TokenChannel ==
  \A tc \in DOMAIN tokenChannels' :
    \A s \in SocketsIn(tokenChannels', tc) \ SocketsIn(tokenChannels, tc) :
      <<tc, stamp'[s].uid>> \notin contentChannelTimeoutIds'

(* C31: immediately after a socket with uid u is moved to sockets no presence
   timer for u is armed, and immediately after a socket of uid u enters token
   channel c no timer for (c, u) is armed. *)
C31_TimersCancelledOnReappearance == [][C31Presence /\ C31TokenChannel]_vars

(* a socket of a user was just set up while the user's presence timer runs *)
C31_Witness ==
  /\ out.op \in {"authenticateClient", "authenticateResponse"}
  /\ out.sid \in sockets
  /\ stamp[out.sid].uid \in presenceTimeoutIds

(***************************************************************************)
(* Token channels with two members: the run starts in the store reached    *)
(* when two sockets have connected and authenticated, each redeeming a     *)
(* content token of tc1 that the backend had set, and follows disconnects, *)
(* the timers, kickUser and logoutUser from there.                         *)
(***************************************************************************)
MaxTokenChannelSteps == 5

ConstructedMachine ==
  [transport |-> [s \in SocketIds |-> "fresh"], stamp |-> [s \in SocketIds |-> NoStamp],
   preAuthSockets |-> {}, sockets |-> {}, authenticatedClients |-> EmptyMap,
   onlineUsers |-> EmptyMap, channels |-> EmptyMap, tokenChannels |-> EmptyMap,
   presenceTimeoutIds |-> {}, contentChannelTimeoutIds |-> {},
   debug |-> DefaultSettings.debug, events |-> <<>>, sent |-> {}, posts |-> <<>>]

(* setContentToken, addSocket, authenticate with the token, the backend accepts *)
AdmittedWithToken(m, s, authToken, notifyOnDisconnect) ==
  LET tc == CHOOSE c \in TokenChannelNames : TRUE
      k == CHOOSE c \in ContentTokens : TRUE
      m1 == SetContentToken(m, tc, k, [notifyOnDisconnect |-> notifyOnDisconnect])
      m2 == [m1 EXCEPT !.transport[s] = "open", !.preAuthSockets = @ \cup {s}]
  IN AuthenticateClientCallback(m2, [sid |-> s, authToken |-> authToken,
                                     contentTokens |-> {<<tc, k>>}, ack |-> FALSE],
                                Answer(200, TRUE))

TokenChannelStarts ==
  {AdmittedWithToken(AdmittedWithToken(ConstructedMachine, 1, a1, n1), 2, a2, n2) :
     a1 \in {"t1"}, a2 \in {"t1", "t2"}, n1 \in BOOLEAN, n2 \in BOOLEAN}

InitTokenChannel ==
  /\ \E m \in TokenChannelStarts :
       /\ transport = m.transport
       /\ stamp = m.stamp
       /\ preAuthSockets = m.preAuthSockets
       /\ sockets = m.sockets
       /\ authenticatedClients = m.authenticatedClients
       /\ onlineUsers = m.onlineUsers
       /\ channels = m.channels
       /\ tokenChannels = m.tokenChannels
       /\ presenceTimeoutIds = m.presenceTimeoutIds
       /\ contentChannelTimeoutIds = m.contentChannelTimeoutIds
       /\ backendPresence = BackendPresenceAfter({}, m.posts)
  /\ pending = {}
  /\ alive = TRUE
  /\ stepCount = 0
  /\ out = NoOut
  /\ keyCheck = NoKeyCheck
  /\ settings = DefaultSettings
  /\ budget = MaxTokenChannelSteps

NextTokenChannel ==
  \/ Disconnect
  \/ CheckOnlineStatus
  \/ CheckTokenChannelStatus
  \/ ExtKickUser
  \/ ExtLogoutUser

SpecTokenChannel == InitTokenChannel /\ [][NextTokenChannel]_vars

(* the token channels that list socket s, and those where its payload asks
   for the disconnect notification *)
ListedIn(s) == {tc \in DOMAIN tokenChannels : s \in DOMAIN tokenChannels[tc].sockets}
NotifyIn(s) == {tc \in ListedIn(s) : tokenChannels[tc].sockets[s].notifyOnDisconnect}

ContentChannelNotifications(o) == {x \in o.sent : x.message.kind = "contentChannelNotification"}

(* the disconnect of an authenticated socket: the entry goes from every token
   channel, and a timer is armed exactly for the channels whose payload asks *)
C32Disconnect ==
  \A s \in sockets :
    (out'.op = "disconnect" /\ out'.sid = s) =>
      /\ \A tc \in DOMAIN tokenChannels' : s \notin SocketsIn(tokenChannels', tc)
      /\ contentChannelTimeoutIds' =
           contentChannelTimeoutIds \cup {<<tc, stamp[s].uid>> : tc \in NotifyIn(s)}
      /\ ContentChannelNotifications(out') = {}

(* the timer of (c, u) fires *)
C32Timer ==
  out'.op = "checkTokenChannelStatus" =>
    LET c == out'.channel
        u == out'.uid
        listed == SocketsIn(tokenChannels, c)
        present == \E s \in sockets : stamp[s].uid = u /\ s \in listed
    IN /\ <<c, u>> \in contentChannelTimeoutIds
       /\ out'.sent = IF present THEN {}
                      ELSE {[to |-> s, message |-> Message("contentChannelNotification", u, c)] :
                              s \in listed \cap sockets}
       /\ tokenChannels' = tokenChannels

(* the notification is sent by the timer only, and a timer is armed only by
   the cleanup of a socket whose payload asks for it *)
C32Only ==
  /\ ContentChannelNotifications(out') # {} => out'.op = "checkTokenChannelStatus"
  /\ \A t \in contentChannelTimeoutIds' \ contentChannelTimeoutIds :
       /\ out'.op \in {"disconnect", "logoutUser"}
       /\ \E s \in SocketIds : t[1] \in NotifyIn(s) /\ t[2] = stamp[s].uid
                                 /\ s \notin SocketsIn(tokenChannels', t[1])

(* C32: the disconnect of an authenticated socket of uid u removes its entry
   from every token channel whatever its payload; with notifyOnDisconnect the
   timer of (c, u) is armed, and when it fires the disconnect notification goes
   to every authenticated socket listed in c exactly when no authenticated
   socket of u is listed in c, and to nobody otherwise; without
   notifyOnDisconnect no timer is armed and no notification is sent. *)
C32_TokenChannelDisconnectNotification == [][C32Disconnect /\ C32Timer /\ C32Only]_vars

(* the timer fired and the remaining member was told *)
C32_Witness ==
  /\ out.op = "checkTokenChannelStatus"
  /\ ContentChannelNotifications(out) # {}

(* the backend accepts the request of a socket that disconnected meanwhile *)
C33AcceptedAfterDisconnect(request) ==
  /\ request \in pending
  /\ transport[request.sid] = "closed"
  /\ out'.op = "authenticateResponse"
  /\ out'.sid = request.sid
  /\ out'.authToken = request.authToken
  /\ AcceptingAnswer(out'.response)

C33Step ==
  \A request \in pending :
    C33AcceptedAfterDisconnect(request) =>
      /\ request.sid \notin sockets'
      /\ \A c \in DOMAIN channels' : request.sid \notin channels'[c].sessionIds
      /\ \A tc \in DOMAIN tokenChannels' : request.sid \notin SocketsIn(tokenChannels', tc)
      /\ onlineUsers' = onlineUsers
      /\ tokenChannels' = tokenChannels
      /\ \A u \in Uids : ~Posted(out', "userOnline", u)
      /\ \A i \in DOMAIN out'.events : out'.events[i].name # "client-authenticated"
      /\ out'.sent = {}

(* C33: when the backend accepts the authenticate request of a socket that
   disconnected while the request was in flight, the socket stays out of
   sockets, of every channel and of every token channel, onlineUsers is
   unchanged, no content token is consumed, no userOnline is posted and no
   client-authenticated event is emitted. *)
C33_AcceptedAfterDisconnectSetsNothingUp == [][C33Step]_vars

(* the accepted request named a content token that is still there to redeem *)
C33_Witness ==
  /\ out.op = "authenticateResponse"
  /\ AcceptingAnswer(out.response)
  /\ transport[out.sid] = "closed"
  /\ out.authToken \in DOMAIN authenticatedClients
  /\ BackendUid(out.authToken) # 0
  /\ \E p \in out.contentTokens :
       p[1] \in DOMAIN tokenChannels /\ p[2] \in DOMAIN tokenChannels[p[1]].tokens

(* a socket is moved to sockets with a uid that is already online *)
C34Step ==
  \A s \in sockets' \ sockets :
    LET u == stamp'[s].uid
    IN u \in DOMAIN onlineUsers =>
         (u \in DOMAIN onlineUsers' /\ onlineUsers'[u] = onlineUsers[u])

(* C34: when a connection is set up for a uid that is already a key of
   onlineUsers, onlineUsers[uid] keeps its value; a presence list stored by
   setUserPresenceList is not replaced by the identity's presenceUids. *)
C34_SetupKeepsPresenceList == [][C34Step]_vars

(* a connection of an online user was set up and the list is now the identity's *)
C34_Witness ==
  /\ out.op \in {"authenticateClient", "authenticateResponse"}
  /\ out.sid \in sockets
  /\ stamp[out.sid].uid \in DOMAIN onlineUsers
  /\ \A u \in Uids : ~Posted(out, "userOnline", u)
  /\ out.authToken \in DOMAIN authenticatedClients
  /\ onlineUsers[stamp[out.sid].uid] = authenticatedClients[out.authToken].presenceUids
  /\ onlineUsers[stamp[out.sid].uid] \notin PresenceLists

(* the same, when the list had not been changed since the user came online *)
C34UnchangedIdentityList ==
  [][\A s \in sockets' \ sockets :
       LET u == stamp'[s].uid
       IN (u \in DOMAIN onlineUsers /\ onlineUsers[u] = BackendPresenceUids(stamp'[s].authToken)) =>
            (u \in DOMAIN onlineUsers' /\ onlineUsers'[u] = onlineUsers[u])]_vars

Emitted(o, name, s) == \E i \in DOMAIN o.events : o.events[i] = [name |-> name, sid |-> s]

(* logoutUser has just cleaned up socket s, which is still connected *)
C35CleanedByLogout(s) ==
  /\ out.op = "logoutUser"
  /\ Emitted(out, "client-disconnect", s)
  /\ transport[s] = "open"

(* the transport then delivers the disconnect of s *)
C35Step ==
  \A s \in SocketIds :
    (C35CleanedByLogout(s) /\ out'.op = "disconnect" /\ out'.sid = s) =>
      /\ sockets' = sockets
      /\ preAuthSockets' = preAuthSockets
      /\ authenticatedClients' = authenticatedClients
      /\ onlineUsers' = onlineUsers
      /\ channels' = channels
      /\ tokenChannels' = tokenChannels
      /\ presenceTimeoutIds' = presenceTimeoutIds
      /\ contentChannelTimeoutIds' = contentChannelTimeoutIds
      /\ out'.posts = <<>>
      /\ out'.sent = {}
      /\ ~Emitted(out', "client-disconnect", s)

(* C35: when logoutUser has cleaned up a still-connected socket and the
   transport then delivers the disconnect of that socket, the second cleanup
   changes no store map, arms no timer, posts and sends nothing, and does not
   emit client-disconnect for the socket a second time. *)
C35_CleanupIsIdempotent == [][C35Step]_vars

(* a socket that logoutUser cleaned up and that is still connected *)
C35_Witness ==
  \E s \in SocketIds :
    /\ C35CleanedByLogout(s)
    /\ s \notin sockets
    /\ stamp[s].uid \in presenceTimeoutIds

(* the store maps alone are left as they were by the second cleanup *)
C35StoreMapsKept ==
  [][\A s \in SocketIds :
       (C35CleanedByLogout(s) /\ out'.op = "disconnect" /\ out'.sid = s) =>
         /\ sockets' = sockets
         /\ preAuthSockets' = preAuthSockets
         /\ authenticatedClients' = authenticatedClients
         /\ onlineUsers' = onlineUsers
         /\ channels' = channels
         /\ tokenChannels' = tokenChannels]_vars

(* the timers part of C35 when the timer armed by logoutUser has fired in
   between: the second cleanup arms no timer.  It does not hold: cleanupSocket
   arms the presence timer of the socket's user once more. *)
C35NoTimerAfterLogout ==
  [][\A s \in SocketIds :
       (transport[s] = "open" /\ s \notin sockets /\ s \notin preAuthSockets
          /\ out'.op = "disconnect" /\ out'.sid = s /\ out.op = "checkOnlineStatus"
          /\ stamp[s].authToken \notin DOMAIN authenticatedClients)
         => presenceTimeoutIds' = presenceTimeoutIds]_vars

EventsOf(o, name, s) == {i \in DOMAIN o.events : o.events[i] = [name |-> name, sid |-> s]}

(* client-connection: emitted when the socket connects, once, and first *)
C36Connection ==
  \A s \in SocketIds :
    /\ Emitted(out', "client-connection", s) =>
         (transport[s] = "fresh" /\ out'.op = "addSocket"
            /\ out'.events = <<[name |-> "client-connection", sid |-> s]>>)
    /\ (transport[s] = "fresh" /\ transport'[s] # "fresh" /\ alive') =>
         Emitted(out', "client-connection", s)
    /\ transport[s] # "fresh" => transport'[s] # "fresh"
    /\ \A i \in DOMAIN out'.events :
         (out'.events[i].sid = s /\ out'.events[i].name # "client-connection") =>
           transport[s] # "fresh"

(* client-authenticated: emitted as the socket leaves preAuthSockets for
   sockets, once; a socket never returns to preAuthSockets *)
C36Authenticated ==
  \A s \in SocketIds :
    /\ Emitted(out', "client-authenticated", s) =>
         /\ s \in preAuthSockets
         /\ s \in sockets'
         /\ Cardinality(EventsOf(out', "client-authenticated", s)) = 1
    /\ (transport[s] # "fresh" /\ s \notin preAuthSockets) => s \notin preAuthSockets'
    /\ (s \in sockets /\ out'.sid = s /\ out'.op \in {"authenticateClient", "authenticateResponse"}) =>
         out'.events = <<>>

C36Identities ==
  {BackendIdentity(t) : t \in AuthTokens} \cup
  {[authToken |-> t, uid |-> authenticatedClients[t].uid,
    channels |-> authenticatedClients[t].channels,
    presenceUids |-> authenticatedClients[t].presenceUids] : t \in DOMAIN authenticatedClients}

(* the manager as the subscribers of client-authenticated find it, and what
   setupClientConnection does after they have run *)
C36AtEmission ==
  \A s \in preAuthSockets, authData \in C36Identities, contentTokens \in ContentTokenMaps :
    LET e == ClientAuthenticatedEmitted(Machine, s, authData, contentTokens)
        done == SetupClientConnection(Machine, s, authData, contentTokens)
        payload == [to |-> s,
                    message |-> Message("clientAuthenticated", authData.uid, authData.authToken)]
    IN /\ e.events = <<[name |-> "client-authenticated", sid |-> s]>>
       /\ s \in e.sockets
       /\ s \notin e.preAuthSockets
       /\ \A c \in Range(authData.channels) \ {Hole} :
            c \in DOMAIN e.channels /\ s \in e.channels[c].sessionIds
       /\ payload \notin e.sent
       /\ done = [e EXCEPT !.sent = @ \cup {payload}]

(* C36: for each socket, client-connection is emitted exactly once, when it
   connects and before any other event of the socket; client-authenticated is
   emitted at most once, and not by an authenticate from a socket already in
   sockets; when it is emitted the socket is in sockets and in every channel
   of its identity, and the clientAuthenticated payload is sent after it. *)
C36_EventOrder == []C36AtEmission /\ [][C36Connection /\ C36Authenticated]_vars

(* a socket already in sockets sent authenticate again and nothing was emitted *)
C36_Witness ==
  /\ out.op = "authenticateClient"
  /\ out.sid \in sockets
  /\ out.authToken \in DOMAIN authenticatedClients
  /\ authenticatedClients[out.authToken].channels # <<>>
  /\ stamp[out.sid].authToken # out.authToken
  /\ out.events = <<>>

(* each presence post, in order, changes what the backend holds: userOnline
   for a uid it holds offline, userOffline for a uid it holds online *)
RECURSIVE PostsAlternate(_, _)
PostsAlternate(online, posts) ==
  IF posts = <<>>
    THEN TRUE
    ELSE LET post == Head(posts)
         IN /\ post.messageType = "userOnline" => post.uid \notin online
            /\ post.messageType = "userOffline" => post.uid \in online
            /\ PostsAlternate(BackendPresenceAfter(online, <<post>>), Tail(posts))

(* C37: for every uid the userOnline and userOffline messages posted to the
   backend alternate and begin with userOnline, over connects, disconnects,
   timers, and the calls setUserPresenceList, kickUser and logoutUser. *)
C37_PresencePostsAlternate == [][PostsAlternate(backendPresence, out'.posts)]_vars

(* a userOffline has just been posted: the backend and the manager now hold
   the uid offline *)
C37_Witness ==
  \E u \in Uids :
    /\ out.op = "checkOnlineStatus"
    /\ Posted(out, "userOffline", u)
    /\ u \notin backendPresence
    /\ u \notin DOMAIN onlineUsers

(* userOnline alone: it is never posted for a uid the backend holds online *)
C37OnlineNotRepeated ==
  [][\A u \in Uids : Posted(out', "userOnline", u) => u \notin backendPresence]_vars

(* userOffline is posted only for a uid that is a key of onlineUsers.  It does
   not hold: the timer armed by the disconnect of a socket that kickUser or
   logoutUser had removed earlier fires for a uid that is offline already. *)
C37OfflineOnlyForOnline ==
  [][\A u \in Uids : Posted(out', "userOffline", u) => u \in DOMAIN onlineUsers]_vars

(***************************************************************************)
(* Presence under fair timers: connections, authentication, disconnects,   *)
(* kickUser and logoutUser are followed for MaxPresenceSteps handlers; a    *)
(* presence timer that is armed fires, whatever else happens: setTimeout   *)
(* runs its callback unless the timer is cleared, and cleanupSocket clears *)
(* a timer only to arm it again.                                           *)
(***************************************************************************)
MaxPresenceSteps == 5

InitPresence ==
  /\ InitStore
  /\ keyCheck = NoKeyCheck
  /\ settings = DefaultSettings
  /\ budget = MaxPresenceSteps

PresenceTimer == \E uid \in presenceTimeoutIds : PresenceTimerFires(uid)

NextPresence ==
  \/ AddSocket
  \/ AuthenticateClient
  \/ AuthenticateResponse
  \/ Disconnect
  \/ ExtKickUser
  \/ ExtLogoutUser
  \/ PresenceTimer

SpecPresence == InitPresence /\ [][NextPresence]_vars /\ WF_vars(PresenceTimer)

NoSocketOf(u) == \A s \in sockets : stamp[s].uid # u

OfflineEverywhere(u) == u \notin DOMAIN onlineUsers /\ u \notin backendPresence

(* C38: under fair firing of armed timers, if from some point on no socket in
   sockets has uid u, then from some point on u is not a key of onlineUsers
   and the last presence message posted for u is not userOnline. *)
C38_EventuallyOffline ==
  \A u \in Uids \ {0} : <>[]NoSocketOf(u) => <>[]OfflineEverywhere(u)

(* the sockets of an online user were removed by kickUser and no timer runs *)
C38_Witness ==
  \E u \in Uids \ {0} :
    /\ out.op = "kickUser"
    /\ out.uid = u
    /\ NoSocketOf(u)
    /\ u \in DOMAIN onlineUsers
    /\ u \in backendPresence
    /\ u \notin presenceTimeoutIds

(* the same for a user whose presence timer is armed *)
C38WhenTimerArmed ==
  \A u \in Uids \ {0} :
    []((u \in presenceTimeoutIds /\ []NoSocketOf(u)) => <>[]OfflineEverywhere(u))

(* the step moved the socket whose authenticate it handles into sockets *)
C39Moved == out'.sid \in sockets' \ sockets

C39AckWhenMoved == (C39Moved /\ out'.wantsAck) => out'.ack = 1

C39AckOnlyWhenMoved == out'.ack > 0 => C39Moved

(* C39: an authenticate with an ack callback that moves the socket to sockets
   has its ack invoked exactly once with {result:'success'}, for an identity
   from the backend and for a cached one; the ack is invoked only when the
   socket was moved. *)
C39_AckExactlyWhenMoved == [][C39AckWhenMoved /\ C39AckOnlyWhenMoved]_vars

(* a socket was set up from the cached identity and its ack was not invoked *)
C39_Witness ==
  /\ out.op = "authenticateClient"
  /\ out.wantsAck
  /\ out.sid \in sockets
  /\ Emitted(out, "client-authenticated", out.sid)
  /\ out.ack = 0

(* the backend branch alone: a socket moved by an accepted answer to a
   request with an ack has the ack invoked once *)
C39BackendAck ==
  [][(out'.op = "authenticateResponse" /\ C39Moved /\ out'.wantsAck) => out'.ack = 1]_vars

(* the ack was invoked for a socket that the accepted answer did not move *)
C39AckWithoutMove ==
  /\ out.op = "authenticateResponse"
  /\ out.ack = 1
  /\ out.sid \notin sockets

C40Uids == {u \in Uids \ {0} : GetNodejsSessionIdsFromUid(Machine, u) = {}}

(* POST user/channel/add/c/u for a uid with no socket in sockets *)
C40Route ==
  \A c \in ChannelNames, u \in C40Uids :
    LET r == Serve(Machine, UserChannelRequest("user/channel/add", c, u))
    IN /\ r.reply = Failed("No active sessions for uid.")
       /\ r.m = Machine
       /\ CheckReply(r.m, c) = CheckReply(Machine, c)

(* the call of an extension that returned false *)
C40Step ==
  (out'.op = "addUserToChannel" /\ ~out'.result) =>
    /\ channels' = channels
    /\ authenticatedClients' = authenticatedClients
    /\ sockets' = sockets
    /\ CheckChannel(Machine', out'.channel) = CheckChannel(Machine, out'.channel)

(* C40: addUserToChannel(c, u) for a uid with no socket in sockets replies
   failed and leaves the store as it is: channel c is not created, and
   checkChannel(c) answers afterwards what it answered before. *)
C40_FailedAddUserToChannelChangesNothing == []C40Route /\ [][C40Step]_vars

(* the call failed and the channel it named exists, with no member *)
C40_Witness ==
  /\ out.op = "addUserToChannel"
  /\ ~out.result
  /\ out.channel \in DOMAIN channels
  /\ channels[out.channel].sessionIds = {}
  /\ CheckChannel(Machine, out.channel)

(* what does hold: the reply is failed, and nothing but the channel map changes;
   the channel map gains at most the named channel, empty *)
C40FailsAndOnlyCreatesChannel ==
  \A c \in ChannelNames, u \in C40Uids :
    LET r == Serve(Machine, UserChannelRequest("user/channel/add", c, u))
    IN /\ r.reply = Failed("No active sessions for uid.")
       /\ [r.m EXCEPT !.channels = channels] = Machine
       /\ r.m.channels = IF c \in DOMAIN channels THEN channels ELSE MapSet(channels, c, NewChannel)

====
